---- MODULE Spec2Model ----
(***************************************************************************)
(* A model of the MongoDB explain linter: the diff extractor, the static   *)
(* and explain-based analyzer of lint_pr, and the command-line front-ends  *)
(* of atlas_cli.py and client_linter.py.  Texts are sequences of           *)
(* one-character strings, so that the regular expressions and the string   *)
(* methods of the source are computed character by character.              *)
(***************************************************************************)
EXTENDS Integers, Sequences, FiniteSets, TLC

(***************************************************************************)
(* Texts of the source and the diff lines the model draws its inputs from. *)
(***************************************************************************)

S_find ==
    <<"f", "i", "n", "d">>
S_findOne ==
    <<"f", "i", "n", "d", "O", "n", "e">>
S_aggregate ==
    <<"a", "g", "g", "r", "e", "g", "a", "t", "e">>
S_updateOne ==
    <<"u", "p", "d", "a", "t", "e", "O", "n", "e">>
S_updateMany ==
    <<"u", "p", "d", "a", "t", "e", "M", "a", "n", "y">>
S_deleteOne ==
    <<"d", "e", "l", "e", "t", "e", "O", "n", "e">>
S_deleteMany ==
    <<"d", "e", "l", "e", "t", "e", "M", "a", "n", "y">>
S_update ==
    <<"u", "p", "d", "a", "t", "e">>
S_delete ==
    <<"d", "e", "l", "e", "t", "e">>
S_dbdot ==
    <<"d", "b", ".">>
S_unknown ==
    <<"u", "n", "k", "n", "o", "w", "n">>
S_braces ==
    <<"{", "}">>
S_regex ==
    <<"r", "e", "g", "e", "x">>
S_text ==
    <<"t", "e", "x", "t">>
S_created_at ==
    <<"c", "r", "e", "a", "t", "e", "d", "_", "a", "t">>
S_gte ==
    <<"g", "t", "e">>
S_sort ==
    <<"s", "o", "r", "t">>
S_limit ==
    <<"l", "i", "m", "i", "t">>
S_compound ==
    <<"c", "o", "m", "p", "o", "u", "n", "d">>
S_users ==
    <<"u", "s", "e", "r", "s">>
S_orders ==
    <<"o", "r", "d", "e", "r", "s">>
S_products ==
    <<"p", "r", "o", "d", "u", "c", "t", "s">>
S_inline_call ==
    <<"d", "b", ".", "o", "r", "d", "e", "r", "s", ".", "f", "i", "n", "d", "(">>
S_var_call ==
    <<"o", "r", "d", "e", "r", "s", ".", "f", "i", "n", "d", "(">>
PatternPrefix ==
    <<"\\", ".">>
PatternSuffix ==
    <<"\\", "(", "(", "[", "^", ")", "]", "+", ")", "\\", ")">>
L_blank ==
    <<>>
L_inline ==
    <<"d", "b", ".", "o", "r", "d", "e", "r", "s", ".", "f", "i", "n", "d", "(", "{", "'", "a", "'", ":", " ", "1", "}", ")">>
L_find_noargs ==
    <<"d", "b", ".", "u", "s", "e", "r", "s", ".", "f", "i", "n", "d", "(", ")">>
L_binding ==
    <<"o", "r", "d", "e", "r", "s", " ", "=", " ", "d", "b", ".", "o", "r", "d", "e", "r", "s">>
L_bare_call ==
    <<" ", " ", ".", "f", "i", "n", "d", "(", "{", "}", ")">>
L_var_call ==
    <<"o", "r", "d", "e", "r", "s", ".", "f", "i", "n", "d", "(", "{", "}", ")">>
L_two_calls ==
    <<"d", "b", ".", "u", "s", "e", "r", "s", ".", "f", "i", "n", "d", "(", "{", "'", "a", "'", ":", " ", "1", "}", ")", ";", " ", "d", "b", ".", "o", "r", "d", "e", "r", "s", ".", "d", "e", "l", "e", "t", "e", "M", "a", "n", "y", "(", "{", "}", ")">>
L_aggregate ==
    <<"d", "b", ".", "o", "r", "d", "e", "r", "s", ".", "a", "g", "g", "r", "e", "g", "a", "t", "e", "(", "[", "{", "'", "$", "s", "o", "r", "t", "'", ":", " ", "{", "'", "a", "'", ":", " ", "1", "}", "}", "]", ")">>
L_nested ==
    <<"d", "b", ".", "u", "s", "e", "r", "s", ".", "f", "i", "n", "d", "(", "f", "(", "1", ")", ")">>
atlas_sample_diff ==
    <<"\n", "d", "i", "f", "f", " ", "-", "-", "g", "i", "t", " ", "a", "/", "a", "p", "p", ".", "p", "y", " ", "b", "/", "a", "p", "p", ".", "p", "y", "\n", "i", "n", "d", "e", "x", " ", "1", "2", "3", ".", ".", "4", "5", "6", " ", "1", "0", "0", "6", "4", "4", "\n", "-", "-", "-", " ", "a", "/", "a", "p", "p", ".", "p", "y", "\n", "+", "+", "+", " ", "b", "/", "a", "p", "p", ".", "p", "y", "\n", "@", "@", " ", "-", "1", "5", ",", "7", " ", "+", "1", "5", ",", "7", " ", "@", "@", " ", "d", "e", "f", " ", "g", "e", "t", "_", "u", "s", "e", "r", "s", "(", ")", ":", "\n", "-", " ", " ", " ", " ", "r", "e", "t", "u", "r", "n", " ", "d", "b", ".", "u", "s", "e", "r", "s", ".", "f", "i", "n", "d", "(", "{", "'", "s", "t", "a", "t", "u", "s", "'", ":", " ", "'", "a", "c", "t", "i", "v", "e", "'", "}", ")", "\n", "+", " ", " ", " ", " ", "r", "e", "t", "u", "r", "n", " ", "d", "b", ".", "u", "s", "e", "r", "s", ".", "f", "i", "n", "d", "(", "{", "'", "s", "t", "a", "t", "u", "s", "'", ":", " ", "'", "a", "c", "t", "i", "v", "e", "'", ",", " ", "'", "r", "o", "l", "e", "'", ":", " ", "'", "u", "s", "e", "r", "'", "}", ")", "\n", "@", "@", " ", "-", "2", "5", ",", "8", " ", "+", "2", "5", ",", "8", " ", "@", "@", " ", "d", "e", "f", " ", "g", "e", "t", "_", "p", "r", "o", "d", "u", "c", "t", "s", "(", ")", ":", "\n", "-", " ", " ", " ", " ", "r", "e", "t", "u", "r", "n", " ", "d", "b", ".", "p", "r", "o", "d", "u", "c", "t", "s", ".", "f", "i", "n", "d", "(", "{", "'", "c", "a", "t", "e", "g", "o", "r", "y", "'", ":", " ", "'", "e", "l", "e", "c", "t", "r", "o", "n", "i", "c", "s", "'", "}", ")", "\n", "+", " ", " ", " ", " ", "r", "e", "t", "u", "r", "n", " ", "d", "b", ".", "p", "r", "o", "d", "u", "c", "t", "s", ".", "f", "i", "n", "d", "(", "{", "'", "c", "a", "t", "e", "g", "o", "r", "y", "'", ":", " ", "'", "e", "l", "e", "c", "t", "r", "o", "n", "i", "c", "s", "'", ",", " ", "'", "p", "r", "i", "c", "e", "'", ":", " ", "{", "'", "$", "l", "t", "'", ":", " ", "1", "0", "0", "0", "}", "}", ")", "\n", "@", "@", " ", "-", "3", "5", ",", "5", " ", "+", "3", "5", ",", "5", " ", "@", "@", " ", "d", "e", "f", " ", "g", "e", "t", "_", "o", "r", "d", "e", "r", "s", "(", ")", ":", "\n", "-", " ", " ", " ", " ", "r", "e", "t", "u", "r", "n", " ", "d", "b", ".", "o", "r", "d", "e", "r", "s", ".", "f", "i", "n", "d", "(", "{", "'", "u", "s", "e", "r", "_", "i", "d", "'", ":", " ", "u", "s", "e", "r", "_", "i", "d", "}", ")", "\n", "+", " ", " ", " ", " ", "r", "e", "t", "u", "r", "n", " ", "d", "b", ".", "o", "r", "d", "e", "r", "s", ".", "a", "g", "g", "r", "e", "g", "a", "t", "e", "(", "[", "{", "'", "$", "m", "a", "t", "c", "h", "'", ":", " ", "{", "'", "u", "s", "e", "r", "_", "i", "d", "'", ":", " ", "u", "s", "e", "r", "_", "i", "d", "}", "}", ",", " ", "{", "'", "$", "s", "o", "r", "t", "'", ":", " ", "{", "'", "c", "r", "e", "a", "t", "e", "d", "_", "a", "t", "'", ":", " ", "-", "1", "}", "}", "]", ")", "\n">>
client_sample_diff ==
    <<"\n", "d", "i", "f", "f", " ", "-", "-", "g", "i", "t", " ", "a", "/", "a", "p", "p", ".", "p", "y", " ", "b", "/", "a", "p", "p", ".", "p", "y", "\n", "i", "n", "d", "e", "x", " ", "1", "2", "3", ".", ".", "4", "5", "6", " ", "1", "0", "0", "6", "4", "4", "\n", "-", "-", "-", " ", "a", "/", "a", "p", "p", ".", "p", "y", "\n", "+", "+", "+", " ", "b", "/", "a", "p", "p", ".", "p", "y", "\n", "@", "@", " ", "-", "1", "5", ",", "7", " ", "+", "1", "5", ",", "7", " ", "@", "@", " ", "d", "e", "f", " ", "g", "e", "t", "_", "u", "s", "e", "r", "s", "(", ")", ":", "\n", "-", " ", " ", " ", " ", "r", "e", "t", "u", "r", "n", " ", "d", "b", ".", "u", "s", "e", "r", "s", ".", "f", "i", "n", "d", "(", "{", "'", "s", "t", "a", "t", "u", "s", "'", ":", " ", "'", "a", "c", "t", "i", "v", "e", "'", "}", ")", "\n", "+", " ", " ", " ", " ", "r", "e", "t", "u", "r", "n", " ", "d", "b", ".", "u", "s", "e", "r", "s", ".", "f", "i", "n", "d", "(", "{", "'", "s", "t", "a", "t", "u", "s", "'", ":", " ", "'", "a", "c", "t", "i", "v", "e", "'", ",", " ", "'", "r", "o", "l", "e", "'", ":", " ", "'", "u", "s", "e", "r", "'", "}", ")", "\n", "@", "@", " ", "-", "2", "5", ",", "8", " ", "+", "2", "5", ",", "8", " ", "@", "@", " ", "d", "e", "f", " ", "g", "e", "t", "_", "p", "r", "o", "d", "u", "c", "t", "s", "(", ")", ":", "\n", "-", " ", " ", " ", " ", "r", "e", "t", "u", "r", "n", " ", "d", "b", ".", "p", "r", "o", "d", "u", "c", "t", "s", ".", "f", "i", "n", "d", "(", "{", "'", "c", "a", "t", "e", "g", "o", "r", "y", "'", ":", " ", "'", "e", "l", "e", "c", "t", "r", "o", "n", "i", "c", "s", "'", "}", ")", "\n", "+", " ", " ", " ", " ", "r", "e", "t", "u", "r", "n", " ", "d", "b", ".", "p", "r", "o", "d", "u", "c", "t", "s", ".", "f", "i", "n", "d", "(", "{", "'", "c", "a", "t", "e", "g", "o", "r", "y", "'", ":", " ", "'", "e", "l", "e", "c", "t", "r", "o", "n", "i", "c", "s", "'", ",", " ", "'", "p", "r", "i", "c", "e", "'", ":", " ", "{", "'", "$", "l", "t", "'", ":", " ", "1", "0", "0", "0", "}", "}", ")", "\n", "@", "@", " ", "-", "3", "5", ",", "5", " ", "+", "3", "5", ",", "5", " ", "@", "@", " ", "d", "e", "f", " ", "g", "e", "t", "_", "o", "r", "d", "e", "r", "s", "(", ")", ":", "\n", "-", " ", " ", " ", " ", "r", "e", "t", "u", "r", "n", " ", "d", "b", ".", "u", "s", "e", "r", "s", ".", "f", "i", "n", "d", "(", "{", "'", "u", "s", "e", "r", "_", "i", "d", "'", ":", " ", "u", "s", "e", "r", "_", "i", "d", "}", ")", "\n", "+", " ", " ", " ", " ", "r", "e", "t", "u", "r", "n", " ", "d", "b", ".", "o", "r", "d", "e", "r", "s", ".", "a", "g", "g", "r", "e", "g", "a", "t", "e", "(", "[", "{", "'", "$", "m", "a", "t", "c", "h", "'", ":", " ", "{", "'", "u", "s", "e", "r", "_", "i", "d", "'", ":", " ", "u", "s", "e", "r", "_", "i", "d", "}", "}", ",", " ", "{", "'", "$", "s", "o", "r", "t", "'", ":", " ", "{", "'", "c", "r", "e", "a", "t", "e", "d", "_", "a", "t", "'", ":", " ", "-", "1", "}", "}", "]", ")", "\n">>

\* a call on a pipeline whose text the capture group cuts at the first ")"
L_aggregate_truncated ==
    <<"d", "b", ".", "o", "r", "d", "e", "r", "s", ".", "a", "g", "g", "r", "e", "g", "a", "t", "e", "(", "[", "{", "'", "$", "s", "o", "r", "t", "'", ":", " ", "f", "(", "1", ")", "}", "]", ")">>

\* a call on a collection no database of the model holds
L_absent ==
    <<"d", "b", ".", "l", "o", "g", "s", ".", "f", "i", "n", "d", "(", "{", "'", "a", "'", ":", " ", "1", "}", ")">>

\* two calls of one pattern on a line
L_two_finds ==
    <<"d", "b", ".", "o", "r", "d", "e", "r", "s", ".", "f", "i", "n", "d",
      "(", "{", "'", "a", "'", ":", " ", "1", "}", ")", ";", " ", "d", "b",
      ".", "u", "s", "e", "r", "s", ".", "f", "i", "n", "d", "(", "{", "'",
      "b", "'", ":", " ", "2", "}", ")">>

\* a call of the last pattern to the left of a call of the first
L_reversed_calls ==
    <<"d", "b", ".", "o", "r", "d", "e", "r", "s", ".", "d", "e", "l", "e",
      "t", "e", "M", "a", "n", "y", "(", "{", "'", "a", "'", ":", " ", "1",
      "}", ")", ";", " ", "d", "b", ".", "o", "r", "d", "e", "r", "s", ".",
      "f", "i", "n", "d", "(", "{", "'", "b", "'", ":", " ", "2", "}", ")">>

\* a second binding
L_binding_users ==
    <<"u", " ", "=", " ", "d", "b", ".", "u", "s", "e", "r", "s">>

\* a call whose receiver is not a <name>.<op> token
L_indexed_call ==
    <<"u", "[", "0", "]", ".", "f", "i", "n", "d", "(", "{", "'", "a", "'",
      ":", " ", "1", "}", ")">>

\* argument texts given to the two parse functions
T_one_field ==
    <<"{", "'", "a", "'", ":", " ", "1", "}">>

T_two_fields ==
    <<"{", "'", "a", "'", ":", " ", "1", ",", " ", "'", "b", "'", ":", " ", "2", "}">>

T_name_value ==
    <<"{", "'", "u", "s", "e", "r", "_", "i", "d", "'", ":", " ", "u", "s", "e", "r", "_", "i", "d", "}">>

T_name_value_two_fields ==
    <<"{", "'", "a", "'", ":", " ", "x", ",", " ", "'", "b", "'", ":", " ", "1", "}">>

T_bare_pair ==
    <<"a", ":", " ", "1">>

T_bare_time ==
    <<"t", "s", ":", " ", "1", "2", ":", "3", "0">>

T_bare_word ==
    <<"s", "t", "a", "t", "u", "s">>

T_filter_and_projection ==
    <<"{", "'", "a", "'", ":", " ", "1", "}", ",", " ", "{", "'", "b", "'", ":", " ", "1", "}">>

T_pipeline ==
    <<"[", "{", "'", "$", "m", "a", "t", "c", "h", "'", ":", " ", "{", "}", "}", "]">>

T_set ==
    <<"{", "'", "a", "'", "}">>

T_unclosed ==
    <<"{", "'", "a", "'", ":", " ", "{", "'", "$", "g", "t", "'", ":", " ", "-", "1", "}">>

T_truncated_pipeline ==
    <<"[", "{", "'", "$", "s", "o", "r", "t", "'", ":", " ", "f", "(", "1">>

T_same_key_twice ==
    <<"{", "'", "a", "'", ":", " ", "1", ",", " ", "'", "a", "'", ":", " ", "2", "}">>

T_constants ==
    <<"{", "'", "a", "'", ":", " ", "T", "r", "u", "e", ",", " ", "'", "b", "'", ":", " ", "N", "o", "n", "e", "}">>

T_nested ==
    <<"{", "'", "c", "a", "t", "e", "g", "o", "r", "y", "'", ":", " ", "'", "e", "l", "e", "c", "t", "r", "o", "n", "i", "c", "s", "'", ",", " ", "'", "p", "r", "i", "c", "e", "'", ":", " ", "{", "'", "$", "l", "t", "'", ":", " ", "1", "0", "0", "0", "}", "}">>

(***************************************************************************)
(* Python string primitives used by the linters, on character sequences.   *)
(***************************************************************************)

\* the letters str.lower() changes, and what it changes them to
UpperLetters ==
    <<"A", "B", "C", "D", "E", "F", "G", "H", "I", "J", "K", "L", "M",
      "N", "O", "P", "Q", "R", "S", "T", "U", "V", "W", "X", "Y", "Z">>

LowerLetters ==
    <<"a", "b", "c", "d", "e", "f", "g", "h", "i", "j", "k", "l", "m",
      "n", "o", "p", "q", "r", "s", "t", "u", "v", "w", "x", "y", "z">>

\* str.lower()
Lower(s) ==
    [j \in 1..Len(s) |->
        IF \E u \in 1..Len(UpperLetters) : UpperLetters[u] = s[j]
        THEN LowerLetters[CHOOSE u \in 1..Len(UpperLetters) : UpperLetters[u] = s[j]]
        ELSE s[j]]

\* the regular-expression class \w
WordChars ==
    {UpperLetters[u] : u \in 1..Len(UpperLetters)}
        \cup {LowerLetters[u] : u \in 1..Len(LowerLetters)}
        \cup {"0", "1", "2", "3", "4", "5", "6", "7", "8", "9", "_"}

\* the regular-expression class \s and the default argument of str.strip()
SpaceChars ==
    {" ", "\t", "\n", "\r"}

QuoteChars ==
    {"'", "\""}

\* does lit occur in s starting at (1-based) position p
StartsWithAt(s, p, lit) ==
    /\ p >= 1
    /\ p + Len(lit) - 1 <= Len(s)
    /\ \A j \in 1..Len(lit) : s[p + j - 1] = lit[j]

\* Python's "sub in s"
Contains(s, sub) ==
    \E p \in 1..(Len(s) + 1) : StartsWithAt(s, p, sub)

\* Python's s.count(c) for a single character c
CountChar(s, c) ==
    Cardinality({j \in 1..Len(s) : s[j] = c})

\* least position >= from holding character c, 0 when there is none
IndexOf(s, c, from) ==
    IF \E j \in from..Len(s) : s[j] = c
    THEN CHOOSE j \in from..Len(s) : s[j] = c /\ \A h \in from..(j - 1) : s[h] # c
    ELSE 0

\* Python's s.strip(chars)
StripChars(s, chars) ==
    IF \A j \in 1..Len(s) : s[j] \in chars
    THEN <<>>
    ELSE LET first == CHOOSE j \in 1..Len(s) :
                          s[j] \notin chars /\ \A h \in 1..(j - 1) : s[h] \in chars
             last == CHOOSE j \in 1..Len(s) :
                          s[j] \notin chars /\ \A h \in (j + 1)..Len(s) : s[h] \in chars
         IN  SubSeq(s, first, last)

Strip(s) ==
    StripChars(s, SpaceChars)

\* Python's s.split(c) for a single character c
RECURSIVE Split(_, _)
Split(s, c) ==
    LET p == IndexOf(s, c, 1)
    IN  IF p = 0 THEN <<s>>
        ELSE <<SubSeq(s, 1, p - 1)>> \o Split(SubSeq(s, p + 1, Len(s)), c)

\* "\n".join(lines)
RECURSIVE JoinLines(_)
JoinLines(ls) ==
    IF Len(ls) = 0 THEN <<>>
    ELSE IF Len(ls) = 1 THEN ls[1]
    ELSE ls[1] \o <<"\n">> \o JoinLines(Tail(ls))

\* end of the maximal run of \w characters that starts at p (p - 1 when s[p] is not \w)
WordRunEnd(s, p) ==
    IF p > Len(s) \/ s[p] \notin WordChars THEN p - 1
    ELSE CHOOSE e \in p..Len(s) :
             /\ \A h \in p..e : s[h] \in WordChars
             /\ (e = Len(s) \/ s[e + 1] \notin WordChars)

\* end of the maximal run of \s characters that starts at p (p - 1 when there is none)
SpaceRunEnd(s, p) ==
    IF p > Len(s) \/ s[p] \notin SpaceChars THEN p - 1
    ELSE CHOOSE e \in p..Len(s) :
             /\ \A h \in p..e : s[h] \in SpaceChars
             /\ (e = Len(s) \/ s[e + 1] \notin SpaceChars)

(***************************************************************************)
(* Extractor: extract_queries_from_diff and _extract_collection_name.      *)
(***************************************************************************)

OpNames ==
    <<S_find, S_findOne, S_aggregate, S_updateOne, S_updateMany, S_deleteOne, S_deleteMany>>

\* the seven regular expressions r'\.<op>\(([^)]+)\)', as written in the source
patterns ==
    [n \in 1..Len(OpNames) |-> PatternPrefix \o OpNames[n] \o PatternSuffix]

\* pattern.split('.')[1].split('(')[0]
OperationOf(pattern) ==
    Split(Split(pattern, ".")[2], "(")[1]

\* the literal text a pattern requires before its capture group: ".<op>("
CallLiteral(n) ==
    <<".">> \o OpNames[n] \o <<"(">>

\* a match of pattern n at position p: the literal, then one or more
\* characters other than ")", then ")"
PatternMatchesAt(n, line, p) ==
    /\ StartsWithAt(line, p, CallLiteral(n))
    /\ LET a == p + Len(CallLiteral(n))
           c == IndexOf(line, ")", a)
       IN  c > a

\* re.finditer(pattern, line): the non-overlapping matches from position
\* from on, left to right, each as [group1, start, end]
RECURSIVE FindIter(_, _, _)
FindIter(n, line, from) ==
    IF \E p \in from..Len(line) : PatternMatchesAt(n, line, p)
    THEN LET p == CHOOSE q \in from..Len(line) :
                      /\ PatternMatchesAt(n, line, q)
                      /\ \A h \in from..(q - 1) : ~PatternMatchesAt(n, line, h)
             a == p + Len(CallLiteral(n))
             c == IndexOf(line, ")", a)
         IN  <<[group1 |-> SubSeq(line, a, c - 1), start |-> p, end |-> c]>>
                 \o FindIter(n, line, c + 1)
    ELSE <<>>

\* the alternatives of collection_pattern after the "."
CollectionOps ==
    <<S_find, S_findOne, S_aggregate, S_update, S_delete>>

\* (\w+)\.(?:find|findOne|aggregate|update|delete) matched with the group at p
WordThenOpAt(line, p) ==
    LET e == WordRunEnd(line, p)
    IN  /\ e >= p
        /\ StartsWithAt(line, e + 1, <<".">>)
        /\ \E a \in 1..Len(CollectionOps) : StartsWithAt(line, e + 2, CollectionOps[a])

\* collection_pattern matched with the match starting at p
CollectionPatternAt(line, p) ==
    \/ StartsWithAt(line, p, S_dbdot) /\ WordThenOpAt(line, p + Len(S_dbdot))
    \/ WordThenOpAt(line, p)

\* the group of a collection_pattern whose parentheses enclose the db. prefix
CollectionGroupAt_WithPrefix(line, p) ==
    IF StartsWithAt(line, p, S_dbdot) /\ WordThenOpAt(line, p + Len(S_dbdot))
    THEN SubSeq(line, p, WordRunEnd(line, p + Len(S_dbdot)))
    ELSE SubSeq(line, p, WordRunEnd(line, p))

\* group(1) of the match of collection_pattern that starts at p
CollectionGroupAt(line, p) ==
    IF StartsWithAt(line, p, S_dbdot) /\ WordThenOpAt(line, p + Len(S_dbdot))
    THEN SubSeq(line, p + Len(S_dbdot), WordRunEnd(line, p + Len(S_dbdot)))
    ELSE SubSeq(line, p, WordRunEnd(line, p))

\* var_pattern (\w+)\s*=\s*db\.(\w+) matched with the match starting at p
VarPatternAt(line, p) ==
    LET e == WordRunEnd(line, p)
        q == SpaceRunEnd(line, e + 1) + 1
        d == SpaceRunEnd(line, q + 1) + 1
    IN  /\ e >= p
        /\ StartsWithAt(line, q, <<"=">>)
        /\ StartsWithAt(line, d, S_dbdot)
        /\ WordRunEnd(line, d + Len(S_dbdot)) >= d + Len(S_dbdot)

\* group(2) of the match of var_pattern that starts at p
VarGroupAt(line, p) ==
    LET e == WordRunEnd(line, p)
        q == SpaceRunEnd(line, e + 1) + 1
        d == SpaceRunEnd(line, q + 1) + 1
    IN  SubSeq(line, d + Len(S_dbdot), WordRunEnd(line, d + Len(S_dbdot)))

\* least p in 1..Len(line) satisfying the match test, 0 when there is none (re.search)
SearchCollection(line) ==
    IF \E p \in 1..Len(line) : CollectionPatternAt(line, p)
    THEN CHOOSE p \in 1..Len(line) :
             CollectionPatternAt(line, p) /\ \A h \in 1..(p - 1) : ~CollectionPatternAt(line, h)
    ELSE 0

SearchVar(line) ==
    IF \E p \in 1..Len(line) : VarPatternAt(line, p)
    THEN CHOOSE p \in 1..Len(line) :
             VarPatternAt(line, p) /\ \A h \in 1..(p - 1) : ~VarPatternAt(line, h)
    ELSE 0

Max(a, b) ==
    IF a >= b THEN a ELSE b

\* number of preceding lines searched for a binding: range(max(0, line_num - 3), line_num)
LookBack ==
    3

\* a look-back that takes the binding nearest to the call
ExtractCollectionName_NearestBinding(line, line_num, all_lines) ==
    IF SearchCollection(line) # 0
    THEN CollectionGroupAt(line, SearchCollection(line))
    ELSE LET window == {j \in Max(0, line_num - LookBack)..(line_num - 1) :
                            SearchVar(all_lines[j + 1]) # 0}
         IN  IF window # {}
             THEN LET j == CHOOSE m \in window : \A h \in window : h <= m
                  IN  VarGroupAt(all_lines[j + 1], SearchVar(all_lines[j + 1]))
             ELSE S_unknown

\* _extract_collection_name(line, line_num, all_lines); line_num is 0-based
ExtractCollectionName(line, line_num, all_lines) ==
    IF SearchCollection(line) # 0
    THEN CollectionGroupAt(line, SearchCollection(line))
    ELSE LET window == {j \in Max(0, line_num - LookBack)..(line_num - 1) :
                            SearchVar(all_lines[j + 1]) # 0}
         IN  IF window # {}
             THEN LET j == CHOOSE m \in window : \A h \in window : m <= h
                  IN  VarGroupAt(all_lines[j + 1], SearchVar(all_lines[j + 1]))
             ELSE S_unknown

\* an extractor that appends the matches of a pattern from right to left
RecordsOfPattern_RightToLeft(n, i, lines) ==
    LET ms == FindIter(n, lines[i + 1], 1)
    IN  [m \in 1..Len(ms) |->
            [line_number |-> i + 1,
             operation   |-> OperationOf(patterns[n]),
             query       |-> ms[Len(ms) + 1 - m].group1,
             collection  |-> ExtractCollectionName(lines[i + 1], i, lines),
             full_line   |-> Strip(lines[i + 1])]]

\* the records appended for pattern n on line i (0-based)
RecordsOfPattern(n, i, lines) ==
    LET ms == FindIter(n, lines[i + 1], 1)
    IN  [m \in 1..Len(ms) |->
            [line_number |-> i + 1,
             operation   |-> OperationOf(patterns[n]),
             query       |-> ms[m].group1,
             collection  |-> ExtractCollectionName(lines[i + 1], i, lines),
             full_line   |-> Strip(lines[i + 1])]]

\* an extractor that reads the added lines only
RECURSIVE RecordsOfLine_AddedOnly(_, _, _)
RecordsOfLine_AddedOnly(n, i, lines) ==
    IF n > Len(patterns) \/ ~StartsWithAt(lines[i + 1], 1, <<"+">>) THEN <<>>
    ELSE RecordsOfPattern(n, i, lines) \o RecordsOfLine_AddedOnly(n + 1, i, lines)

\* the records appended for line i: for pattern in patterns
RECURSIVE RecordsOfLine(_, _, _)
RecordsOfLine(n, i, lines) ==
    IF n > Len(patterns) THEN <<>>
    ELSE RecordsOfPattern(n, i, lines) \o RecordsOfLine(n + 1, i, lines)

\* for i, line in enumerate(lines), from line i on
RECURSIVE RecordsFrom(_, _)
RecordsFrom(i, lines) ==
    IF i >= Len(lines) THEN <<>>
    ELSE RecordsOfLine(1, i, lines) \o RecordsFrom(i + 1, lines)

\* extract_queries_from_diff(diff_content)
extract_queries_from_diff(text) ==
    RecordsFrom(0, Split(text, "\n"))

(***************************************************************************)
(* Argument texts: eval on the literal syntax the argument texts use, then *)
(* _parse_query_string and _parse_aggregation_pipeline.                    *)
(***************************************************************************)

S_True ==
    <<"T", "r", "u", "e">>

S_False ==
    <<"F", "a", "l", "s", "e">>

S_None ==
    <<"N", "o", "n", "e">>

S_match ==
    <<"$", "m", "a", "t", "c", "h">>

DigitChars ==
    {"0", "1", "2", "3", "4", "5", "6", "7", "8", "9"}

DigitValue(c) ==
    CASE c = "0" -> 0 [] c = "1" -> 1 [] c = "2" -> 2 [] c = "3" -> 3 [] c = "4" -> 4
      [] c = "5" -> 5 [] c = "6" -> 6 [] c = "7" -> 7 [] c = "8" -> 8 [] c = "9" -> 9

\* the values eval returns, each tagged with its Python type; a dict is the
\* sequence of its (key, value) items in insertion order
PyNone ==
    [t |-> "none"]

PyBool(b) ==
    [t |-> "bool", v |-> b]

PyInt(n) ==
    [t |-> "int", v |-> n]

PyStr(s) ==
    [t |-> "str", v |-> s]

PyList(items) ==
    [t |-> "list", v |-> items]

PyTuple(items) ==
    [t |-> "tuple", v |-> items]

PySet(items) ==
    [t |-> "set", v |-> items]

PyDict(items) ==
    [t |-> "dict", v |-> items]

\* eval raised (SyntaxError, NameError, TypeError, ...)
EvalRaised ==
    [ok |-> FALSE]

Evaluated(val, next) ==
    [ok |-> TRUE, val |-> val, next |-> next]

\* first position from p on that holds no blank
SkipBlanks(s, p) ==
    SpaceRunEnd(s, p) + 1

\* the decimal number written by the digits s[a..b]
RECURSIVE IntOf(_, _, _)
IntOf(s, a, b) ==
    IF b < a THEN 0 ELSE 10 * IntOf(s, a, b - 1) + DigitValue(s[b])

\* end of the maximal run of digits that starts at p
DigitRunEnd(s, p) ==
    CHOOSE e \in p..Len(s) :
        /\ \A h \in p..e : s[h] \in DigitChars
        /\ (e = Len(s) \/ s[e + 1] \notin DigitChars)

\* can the value be a dict key or a set element
Hashable(val) ==
    val.t \in {"none", "bool", "int", "str"}

\* d[key] = val on the items of a dict: a key that is present keeps its place
DictPut(items, key, val) ==
    IF \E n \in 1..Len(items) : items[n].key = key
    THEN [n \in 1..Len(items) |->
              IF items[n].key = key THEN [key |-> key, val |-> val] ELSE items[n]]
    ELSE Append(items, [key |-> key, val |-> val])

\* the dict display {k1: v1, k2: v2, ...}, entries evaluated left to right
RECURSIVE DictItems(_, _)
DictItems(entries, n) ==
    IF n = 0 THEN <<>>
    ELSE DictPut(DictItems(entries, n - 1), entries[n].key, entries[n].val)

\* the set display {e1, e2, ...}
RECURSIVE SetItems(_, _)
SetItems(entries, n) ==
    IF n = 0 THEN <<>>
    ELSE LET before == SetItems(entries, n - 1)
         IN  IF \E h \in 1..Len(before) : before[h] = entries[n].val
             THEN before
             ELSE Append(before, entries[n].val)

\* the value of a {...} display from its entries
BraceValue(entries) ==
    IF \A n \in 1..Len(entries) : entries[n].pair
    THEN IF \A n \in 1..Len(entries) : Hashable(entries[n].key)
         THEN [ok |-> TRUE, val |-> PyDict(DictItems(entries, Len(entries)))]
         ELSE EvalRaised
    ELSE IF \A n \in 1..Len(entries) : ~entries[n].pair /\ Hashable(entries[n].val)
    THEN [ok |-> TRUE, val |-> PySet(SetItems(entries, Len(entries)))]
    ELSE EvalRaised

\* the text of s from position p on, read as the syntax names: "expr" reads
\* one expression (a dict, set or list display, a string, a decimal integer
\* with an optional minus sign, True, False or None; any other name raises
\* NameError, any other text SyntaxError); a closing character reads the
\* entries of a display up to it, expressions or key: value pairs inside
\* braces, separated by commas, and acc holds the entries read so far
RECURSIVE EvalAt(_, _, _, _)
EvalAt(s, p, syntax, acc) ==
    IF syntax = "expr"
    THEN IF p > Len(s) THEN EvalRaised
         ELSE IF s[p] = "{"
         THEN LET r == EvalAt(s, p + 1, "}", <<>>)
              IN  IF ~r.ok THEN EvalRaised
                  ELSE LET b == BraceValue(r.val)
                       IN  IF b.ok THEN Evaluated(b.val, r.next) ELSE EvalRaised
         ELSE IF s[p] = "["
         THEN LET r == EvalAt(s, p + 1, "]", <<>>)
              IN  IF ~r.ok THEN EvalRaised
                  ELSE Evaluated(PyList([n \in 1..Len(r.val) |-> r.val[n].val]), r.next)
         ELSE IF s[p] \in QuoteChars
         THEN LET c == IndexOf(s, s[p], p + 1)
              IN  IF c = 0 \/ (\E h \in (p + 1)..(c - 1) : s[h] = "\\") THEN EvalRaised
                  ELSE IF c = p + 1 /\ c < Len(s) /\ s[c + 1] = s[p] THEN EvalRaised
                  ELSE Evaluated(PyStr(SubSeq(s, p + 1, c - 1)), c + 1)
         ELSE IF s[p] \in DigitChars
         THEN LET e == DigitRunEnd(s, p)
              IN  IF (s[p] = "0" /\ e > p) \/ (e < Len(s) /\ s[e + 1] \in WordChars \cup {"."})
                  THEN EvalRaised
                  ELSE Evaluated(PyInt(IntOf(s, p, e)), e + 1)
         ELSE IF s[p] = "-"
         THEN LET q == SkipBlanks(s, p + 1)
                  r == EvalAt(s, q, "expr", <<>>)
              IN  IF q <= Len(s) /\ s[q] \in DigitChars /\ r.ok
                  THEN Evaluated(PyInt(0 - r.val.v), r.next)
                  ELSE EvalRaised
         ELSE IF s[p] \in WordChars
         THEN LET name == SubSeq(s, p, WordRunEnd(s, p))
              IN  IF name = S_True THEN Evaluated(PyBool(TRUE), p + Len(name))
                  ELSE IF name = S_False THEN Evaluated(PyBool(FALSE), p + Len(name))
                  ELSE IF name = S_None THEN Evaluated(PyNone, p + Len(name))
                  ELSE EvalRaised
         ELSE EvalRaised
    ELSE LET q == SkipBlanks(s, p)
         IN  IF q > Len(s) THEN EvalRaised
             ELSE IF s[q] = syntax THEN Evaluated(acc, q + 1)
             ELSE LET e == EvalAt(s, q, "expr", <<>>)
                  IN  IF ~e.ok THEN EvalRaised
                      ELSE LET q2 == SkipBlanks(s, e.next)
                               is_pair == syntax = "}" /\ q2 <= Len(s) /\ s[q2] = ":"
                               v == IF is_pair
                                    THEN EvalAt(s, SkipBlanks(s, q2 + 1), "expr", <<>>)
                                    ELSE e
                           IN  IF ~v.ok THEN EvalRaised
                               ELSE LET entry == IF is_pair
                                                 THEN [pair |-> TRUE, key |-> e.val, val |-> v.val]
                                                 ELSE [pair |-> FALSE, val |-> e.val]
                                        q3 == SkipBlanks(s, v.next)
                                    IN  IF q3 > Len(s) THEN EvalRaised
                                        ELSE IF s[q3] = ","
                                        THEN EvalAt(s, q3 + 1, syntax, Append(acc, entry))
                                        ELSE IF s[q3] = syntax
                                        THEN Evaluated(Append(acc, entry), q3 + 1)
                                        ELSE EvalRaised

\* eval(text): one expression, or a tuple of expressions separated by commas
Eval(text) ==
    LET s == text \o <<"END">>
        r == EvalAt(s, 1, "END", <<>>)
        last == StripChars(text, SpaceChars)
    IN  IF ~r.ok \/ Len(r.val) = 0 THEN EvalRaised
        ELSE IF Len(r.val) = 1 /\ last[Len(last)] # ","
        THEN [ok |-> TRUE, val |-> r.val[1].val]
        ELSE [ok |-> TRUE, val |-> PyTuple([n \in 1..Len(r.val) |-> r.val[n].val])]

\* _parse_query_string(query_str)
ParseQueryString(query_str) ==
    LET cleaned == StripChars(Strip(query_str), QuoteChars)
        literal == Eval(cleaned)
    IN  IF Contains(cleaned, <<"{">>) /\ Contains(cleaned, <<"}">>) /\ literal.ok
        THEN literal.val
        ELSE IF Contains(cleaned, <<":">>)
        THEN LET parts == Split(cleaned, ":")
                 field == StripChars(Strip(parts[1]), QuoteChars)
                 value == StripChars(Strip(parts[2]), QuoteChars)
             IN  PyDict(<<[key |-> PyStr(field), val |-> PyStr(value)]>>)
        ELSE PyDict(<<>>)

\* the pipeline _parse_aggregation_pipeline falls back to: [{"$match": {}}]
DefaultPipeline ==
    PyList(<<PyDict(<<[key |-> PyStr(S_match), val |-> PyDict(<<>>)]>>)>>)

\* _parse_aggregation_pipeline(pipeline_str)
ParseAggregationPipeline(pipeline_str) ==
    LET literal == Eval(pipeline_str)
    IN  IF literal.ok THEN literal.val ELSE DefaultPipeline

(***************************************************************************)
(* Analyzer: _analyze_query_statically, the explain thresholds of lint_pr  *)
(* and the result of analyze_query_performance.                            *)
(***************************************************************************)

\* dict.get(key, default)
Get(d, key, default) ==
    IF key \in DOMAIN d THEN d[key] ELSE default

\* the five text checks with a multi-field check that fires from 2 colons on
StaticIssues_FromTwoColons(query) ==
    LET query_str == query.query
        line_number == query.line_number
        operation == query.operation
    IN  (IF Strip(query_str) \in {S_braces, <<>>}
         THEN <<[severity |-> "HIGH",
                 message  |-> [text |-> "Empty query detected on line", line |-> line_number],
                 query    |-> query,
                 type     |-> "EMPTY_QUERY"]>>
         ELSE <<>>)
        \o
        (IF Contains(Lower(query_str), S_regex) /\ ~Contains(Lower(query_str), S_text)
         THEN <<[severity |-> "MEDIUM",
                 message  |-> [text |-> "Regex query detected on line", line |-> line_number],
                 query    |-> query,
                 type     |-> "REGEX_WITHOUT_INDEX"]>>
         ELSE <<>>)
        \o
        (IF Contains(query_str, S_created_at) /\ Contains(query_str, S_gte)
         THEN <<[severity |-> "MEDIUM",
                 message  |-> [text |-> "Date range query on line", line |-> line_number],
                 query    |-> query,
                 type     |-> "DATE_RANGE_QUERY"]>>
         ELSE <<>>)
        \o
        (IF operation = S_aggregate /\ Contains(query_str, S_sort) /\ ~Contains(query_str, S_limit)
         THEN <<[severity |-> "MEDIUM",
                 message  |-> [text |-> "Sort operation without limit on line", line |-> line_number],
                 query    |-> query,
                 type     |-> "SORT_WITHOUT_LIMIT"]>>
         ELSE <<>>)
        \o
        (IF CountChar(query_str, ":") >= 2 /\ ~Contains(Lower(query_str), S_compound)
         THEN <<[severity |-> "LOW",
                 message  |-> [text |-> "Multi-field query on line", line |-> line_number],
                 query    |-> query,
                 type     |-> "MULTI_FIELD_QUERY"]>>
         ELSE <<>>)

\* _analyze_query_statically(query): the five text checks, in source order
StaticIssues(query) ==
    LET query_str == query.query
        line_number == query.line_number
        operation == query.operation
    IN  (IF Strip(query_str) \in {S_braces, <<>>}
         THEN <<[severity |-> "HIGH",
                 message  |-> [text |-> "Empty query detected on line", line |-> line_number],
                 query    |-> query,
                 type     |-> "EMPTY_QUERY"]>>
         ELSE <<>>)
        \o
        (IF Contains(Lower(query_str), S_regex) /\ ~Contains(Lower(query_str), S_text)
         THEN <<[severity |-> "MEDIUM",
                 message  |-> [text |-> "Regex query detected on line", line |-> line_number],
                 query    |-> query,
                 type     |-> "REGEX_WITHOUT_INDEX"]>>
         ELSE <<>>)
        \o
        (IF Contains(query_str, S_created_at) /\ Contains(query_str, S_gte)
         THEN <<[severity |-> "MEDIUM",
                 message  |-> [text |-> "Date range query on line", line |-> line_number],
                 query    |-> query,
                 type     |-> "DATE_RANGE_QUERY"]>>
         ELSE <<>>)
        \o
        (IF operation = S_aggregate /\ Contains(query_str, S_sort) /\ ~Contains(query_str, S_limit)
         THEN <<[severity |-> "MEDIUM",
                 message  |-> [text |-> "Sort operation without limit on line", line |-> line_number],
                 query    |-> query,
                 type     |-> "SORT_WITHOUT_LIMIT"]>>
         ELSE <<>>)
        \o
        (IF CountChar(query_str, ":") > 2 /\ ~Contains(Lower(query_str), S_compound)
         THEN <<[severity |-> "LOW",
                 message  |-> [text |-> "Multi-field query on line", line |-> line_number],
                 query    |-> query,
                 type     |-> "MULTI_FIELD_QUERY"]>>
         ELSE <<>>)

\* thresholds of the explain checks
SlowQueryMs ==
    100

LargeScanDocs ==
    1000

\* the explain responses the database may give
ExplainResponses ==
    { [executionStats |-> [executionTimeMillis |-> 100, totalDocsExamined |-> 1000, nReturned |-> 1],
       queryPlanner   |-> [winningPlan |-> [stage |-> "IXSCAN", indexName |-> "a_1"]]],
      [executionStats |-> [executionTimeMillis |-> 100, totalDocsExamined |-> 1000, nReturned |-> 1],
       queryPlanner   |-> [winningPlan |-> [stage |-> "COLLSCAN"]]],
      [executionStats |-> [executionTimeMillis |-> 101, totalDocsExamined |-> 1001, nReturned |-> 1],
       queryPlanner   |-> [winningPlan |-> [stage |-> "IXSCAN", indexName |-> "a_1"]]] }

EmptyDict ==
    [x \in {} |-> x]

\* the analysis analyze_query_performance builds from an explain response
AnalysisOf(collection_name, query_str, operation, explain_result) ==
    LET execution_stats == Get(explain_result, "executionStats", EmptyDict)
        query_planner == Get(explain_result, "queryPlanner", EmptyDict)
    IN  [collection         |-> collection_name,
         operation          |-> operation,
         query              |-> query_str,
         execution_time_ms  |-> Get(execution_stats, "executionTimeMillis", 0),
         documents_examined |-> Get(execution_stats, "totalDocsExamined", 0),
         documents_returned |-> Get(execution_stats, "nReturned", 0),
         index_used         |-> Get(Get(query_planner, "winningPlan", EmptyDict), "indexName", "None"),
         is_collection_scan |-> Get(Get(query_planner, "winningPlan", EmptyDict), "stage", "None") = "COLLSCAN",
         raw_explain        |-> explain_result]

\* an error result that reports a collection scan
ErrorAnalysis_AsCollectionScan(collection_name, query_str, operation, error) ==
    [collection         |-> collection_name,
     operation          |-> operation,
     query              |-> query_str,
     error              |-> error,
     execution_time_ms  |-> 0,
     documents_examined |-> 0,
     documents_returned |-> 0,
     index_used         |-> "None",
     is_collection_scan |-> TRUE]

\* the analysis analyze_query_performance returns from its except branch,
\* and the client linter returns for a collection that is not in the database
ErrorAnalysis(collection_name, query_str, operation, error) ==
    [collection         |-> collection_name,
     operation          |-> operation,
     query              |-> query_str,
     error              |-> error,
     execution_time_ms  |-> 0,
     documents_examined |-> 0,
     documents_returned |-> 0,
     index_used         |-> "None",
     is_collection_scan |-> FALSE]

\* the explain checks with a slow-query check that fires from the threshold on
DynamicIssues_FromThreshold(query, analysis) ==
    (IF Get(analysis, "is_collection_scan", FALSE)
     THEN <<[severity |-> "HIGH",
             message  |-> [text |-> "Collection scan detected on line", line |-> query.line_number],
             query    |-> query,
             analysis |-> analysis]>>
     ELSE <<>>)
    \o
    (IF Get(analysis, "execution_time_ms", 0) >= SlowQueryMs
     THEN <<[severity |-> "MEDIUM",
             message  |-> [text |-> "Slow query detected on line", line |-> query.line_number,
                           value |-> analysis.execution_time_ms],
             query    |-> query,
             analysis |-> analysis]>>
     ELSE <<>>)
    \o
    (IF Get(analysis, "documents_examined", 0) > LargeScanDocs
     THEN <<[severity |-> "MEDIUM",
             message  |-> [text |-> "Large document scan on line", line |-> query.line_number,
                           value |-> analysis.documents_examined],
             query    |-> query,
             analysis |-> analysis]>>
     ELSE <<>>)

\* the explain checks of lint_pr on one analysis, in source order
DynamicIssues(query, analysis) ==
    (IF Get(analysis, "is_collection_scan", FALSE)
     THEN <<[severity |-> "HIGH",
             message  |-> [text |-> "Collection scan detected on line", line |-> query.line_number],
             query    |-> query,
             analysis |-> analysis]>>
     ELSE <<>>)
    \o
    (IF Get(analysis, "execution_time_ms", 0) > SlowQueryMs
     THEN <<[severity |-> "MEDIUM",
             message  |-> [text |-> "Slow query detected on line", line |-> query.line_number,
                           value |-> analysis.execution_time_ms],
             query    |-> query,
             analysis |-> analysis]>>
     ELSE <<>>)
    \o
    (IF Get(analysis, "documents_examined", 0) > LargeScanDocs
     THEN <<[severity |-> "MEDIUM",
             message  |-> [text |-> "Large document scan on line", line |-> query.line_number,
                           value |-> analysis.documents_examined],
             query    |-> query,
             analysis |-> analysis]>>
     ELSE <<>>)

\* the report lint_pr returns when the extractor found nothing
NoQueriesReport ==
    [success |-> TRUE,
     message |-> "No MongoDB queries found in PR",
     queries |-> <<>>,
     issues  |-> <<>>]

\* a report whose success flag looks at the HIGH issues only
ReportOf_SuccessIgnoresMedium(qs, as, is) ==
    [success          |-> \A n \in 1..Len(is) : is[n].severity # "HIGH",
     total_queries    |-> Len(qs),
     queries_analyzed |-> Len(as),
     issues_found     |-> Len(is),
     queries          |-> qs,
     analyses         |-> as,
     issues           |-> is]

\* the report lint_pr generates after its loop
ReportOf(qs, as, is) ==
    [success          |-> Len(is) = 0,
     total_queries    |-> Len(qs),
     queries_analyzed |-> Len(as),
     issues_found     |-> Len(is),
     queries          |-> qs,
     analyses         |-> as,
     issues           |-> is]

(***************************************************************************)
(* _connect: the connection string it builds from config.mongo and what    *)
(* it prints.                                                              *)
(***************************************************************************)

S_mongodb ==
    <<"m", "o", "n", "g", "o", "d", "b", ":", "/", "/">>

S_mongodb_srv ==
    <<"m", "o", "n", "g", "o", "d", "b", "+", "s", "r", "v", ":", "/", "/">>

S_at_localhost ==
    <<"@", "l", "o", "c", "a", "l", "h", "o", "s", "t", ":", "2", "7", "0",
      "1", "7">>

S_authSource ==
    <<"a", "u", "t", "h", "S", "o", "u", "r", "c", "e", "=">>

S_stars ==
    <<"*", "*", "*">>

S_test ==
    <<"t", "e", "s", "t">>

S_admin ==
    <<"a", "d", "m", "i", "n">>

\* Python's s.replace(old, new): every occurrence of old, left to right,
\* without overlap; an empty old matches before every character and at the end
RECURSIVE Replace(_, _, _)
Replace(s, old, new) ==
    IF Len(old) = 0
    THEN IF Len(s) = 0 THEN new
         ELSE new \o <<s[1]>> \o Replace(Tail(s), old, new)
    ELSE IF Len(s) < Len(old) THEN s
    ELSE IF StartsWithAt(s, 1, old)
    THEN new \o Replace(SubSeq(s, Len(old) + 1, Len(s)), old, new)
    ELSE <<s[1]>> \o Replace(Tail(s), old, new)

\* the truth value of an Optional[str] field: None and '' are false
Truthy(field) ==
    field.t = "str" /\ field.v # <<>>

\* an Optional[str] field as an f-string formats it
Format(field) ==
    IF field.t = "none" THEN S_None ELSE field.v

\* the defaults of MongoConfig
DefaultMongo ==
    [connection_string |-> S_mongodb \o Tail(S_at_localhost),
     database          |-> S_test,
     username          |-> PyNone,
     password          |-> PyNone,
     auth_source       |-> S_admin]

\* the connection string _connect hands to MongoClient
ConnectionString(m) ==
    LET configured == m.connection_string
        credentials == m.username.v \o <<":">> \o m.password.v \o <<"@">>
        with_auth ==
            IF Contains(configured, <<"@">>) THEN configured
            ELSE IF StartsWithAt(configured, 1, S_mongodb)
            THEN S_mongodb \o credentials \o Replace(configured, S_mongodb, <<>>)
            ELSE IF StartsWithAt(configured, 1, S_mongodb_srv)
            THEN S_mongodb_srv \o credentials \o Replace(configured, S_mongodb_srv, <<>>)
            ELSE S_mongodb \o m.username.v \o <<":">> \o m.password.v \o S_at_localhost
        separator == IF Contains(with_auth, <<"?">>) THEN <<"&">> ELSE <<"?">>
    IN  IF Truthy(m.username) /\ Truthy(m.password)
        THEN IF m.auth_source # <<>> /\ ~Contains(with_auth, S_authSource)
             THEN with_auth \o separator \o S_authSource \o m.auth_source
             ELSE with_auth
        ELSE configured

\* one print call of _connect: which one, and the text it interpolates
Printed(line, text) ==
    [line |-> line, text |-> text]

\* the messages of the exceptions MongoClient(...) and the ping raise; pymongo
\* writes them, from the hosts of the connection string
ErrorMessage(connect) ==
    IF connect = "invalid_uri"
    THEN <<"I", "n", "v", "a", "l", "i", "d", "U", "R", "I">>
    ELSE <<"t", "i", "m", "e", "d", " ", "o", "u", "t">>

\* what _connect prints, in order; connect is how the connection went
ConnectOutput(m, connect) ==
    LET connection_string == ConnectionString(m)
        shown == IF Truthy(m.password)
                 THEN Replace(connection_string, m.password.v, S_stars)
                 ELSE connection_string
    IN  <<Printed("Connecting to", m.database),
          Printed("Connection string", shown)>>
        \o (IF connect = "connected"
            THEN <<Printed("Connected", <<>>)>>
            ELSE <<Printed("Failed to connect", ErrorMessage(connect)),
                   Printed("Connection string used", m.connection_string),
                   Printed("Username", Format(m.username)),
                   Printed("Database", m.database),
                   Printed("Auth source", m.auth_source),
                   Printed("hints", <<>>)>>)

(***************************************************************************)
(* Inputs.                                                                 *)
(***************************************************************************)

\* the lines a diff given to the extractor alone is made of
LineChoices ==
    {L_blank, L_inline, L_find_noargs, L_binding, L_bare_call, L_var_call,
     L_two_calls, L_aggregate, L_nested}

\* the lines a diff given to a front-end is made of
RunLineChoices ==
    {L_blank, L_inline, L_binding, L_bare_call, L_var_call, L_aggregate}

\* longest diff, in lines, given to the extractor alone
MaxLines ==
    4

\* longest diff, in lines, given to a front-end
MaxRunLines ==
    2

\* longest diff, in lines, given as --diff-content on the command line
MaxContentLines ==
    1

SeqsUpTo(S, n) ==
    UNION {[1..m -> S] : m \in 1..n}

\* the collections _create_sample_data creates, in source order
SampleCollections ==
    <<S_users, S_products, S_orders>>

\* the collection lists the database may hold when a run starts
DbChoices ==
    {<<>>, <<S_orders>>}

\* the connection strings config.mongo may hold: hosts alone with either
\* scheme and with none, with a query part, and with credentials embedded
ConnectionStringChoices ==
    {S_mongodb \o <<"h">>,
     S_mongodb_srv \o <<"h">>,
     <<"h", ":", "1">>,
     S_mongodb \o <<"h", "/", "?", "w", "=", "1">>,
     S_mongodb \o <<"u", ":", "p", "w", "@", "h">>,
     S_mongodb_srv \o <<"u", ":", "s", "3", "@", "h">>}

\* config.mongo as the environment may set it
MongoChoices ==
    [connection_string : ConnectionStringChoices,
     database          : {S_test},
     username          : {PyNone, PyStr(<<"u">>)},
     password          : {PyNone, PyStr(<<>>), PyStr(<<"p", "w">>)},
     auth_source       : {S_admin, <<>>}]

Frontends ==
    {"atlas_lint", "atlas_test", "atlas_collections", "client_main"}

\* the front-ends that lint a diff, one for each linter: atlas_linter.py
\* and client_linter.py
LintFrontends ==
    {"atlas_lint", "client_main"}

\* where the diff comes from: --diff-file (readable, missing or unreadable),
\* --diff-content, --test / the test command, or nothing
Sources ==
    {"file", "missing", "unreadable", "content", "test", "none"}

VARIABLES
    frontend,        \* the command that runs
    source,          \* where its diff comes from
    input_text,      \* the text of the diff file or of --diff-content
    fail_on_issues,  \* --fail-on-issues
    pc,              \* position of the run
    client,          \* self.client: "none", "created" (ping failed), "open" or "closed"
    close_calls,     \* number of self.client.close() calls
    db_collections,  \* the collections of the database, as list_collection_names lists them
    db_calls,        \* the database calls made, in order
    diff_content,    \* the diff text handed to lint_pr
    queries,         \* lint_pr: the extracted records
    k,               \* lint_pr: index of the record the loop is at
    analyses,        \* lint_pr: the analyses so far
    issues,          \* lint_pr: the issues so far
    parse_calls,     \* the argument texts interpreted, in order, with the results
    report,          \* the report lint_pr returned
    exit_code,       \* exit code of the process, -1 while it runs
    failure,         \* what ended the run with exit 1, "none" otherwise
    mongo,           \* config.mongo
    printed,         \* what _connect printed, in order
    run,             \* which call of lint_pr on this linter: 1 or 2; 0 when the
                     \* database is not held unchanged between the calls
    answers,         \* what the unchanged database answered to each request
    first_report     \* the report the first call of lint_pr returned

vars ==
    <<frontend, source, input_text, fail_on_issues, pc, client, close_calls,
      db_collections, db_calls, diff_content, queries, k, analyses, issues,
      parse_calls, report, exit_code, failure, mongo, printed,
      run, answers, first_report>>

\* no report returned yet
NoReport ==
    [returned |-> FALSE]

inputVars ==
    <<frontend, source, input_text, fail_on_issues, mongo>>

lintVars ==
    <<queries, k, analyses, issues, parse_calls, report>>

rerunVars ==
    <<run, answers, first_report>>

(***************************************************************************)
(* The front-ends: atlas_cli.py lint-pr, test, collections and             *)
(* client_linter.py main.                                                  *)
(***************************************************************************)

Init ==
    /\ frontend \in Frontends
    /\ source \in Sources
    /\ fail_on_issues \in BOOLEAN
    /\ input_text \in {JoinLines(ls) : ls \in SeqsUpTo(RunLineChoices, MaxRunLines)}
    /\ source = "content" => Len(Split(input_text, "\n")) <= MaxContentLines
    /\ frontend = "atlas_lint" => source # "test"
    /\ frontend = "atlas_test" => source = "test" /\ ~fail_on_issues
    /\ frontend = "atlas_collections" => source = "none" /\ ~fail_on_issues
    /\ source \notin {"file", "content"} => input_text = <<>>
    /\ source = "content" => input_text # <<>>
    /\ pc = IF frontend = "atlas_lint" THEN "get_diff" ELSE "init"
    /\ client = "none"
    /\ close_calls = 0
    /\ db_collections \in DbChoices
    /\ db_calls = <<>>
    /\ diff_content = <<>>
    /\ queries = <<>>
    /\ k = 0
    /\ analyses = <<>>
    /\ issues = <<>>
    /\ parse_calls = <<>>
    /\ report = NoReport
    /\ exit_code = -1
    /\ failure = "none"
    /\ mongo = DefaultMongo
    /\ printed = <<>>
    /\ run = 0
    /\ answers = <<>>
    /\ first_report = NoReport

\* sys.exit(code), also from the except branch of a command; why names the
\* message printed before it: "input" (no diff, file not found, open() raised),
\* "connect" (_connect raised), "database" (a database call raised),
\* "KeyError" (the report lacks a key), "issues" (--fail-on-issues)
Exit(code, why) ==
    /\ pc' = "done"
    /\ exit_code' = code
    /\ failure' = why

\* the run goes on
Continue ==
    UNCHANGED <<exit_code, failure>>

DbCall(rec, call, collection) ==
    [record |-> rec, call |-> call, collection |-> collection]

\* the diff-input branch of lint_pr (atlas_cli.py) and main (client_linter.py)
GetDiff ==
    /\ pc = "get_diff"
    /\ IF source \in {"file", "content"}
       THEN /\ diff_content' = input_text
            /\ pc' = IF frontend = "atlas_lint" THEN "init" ELSE "lint"
            /\ Continue
       ELSE IF source = "test"
       THEN /\ diff_content' = IF frontend = "atlas_test" THEN atlas_sample_diff
                                                           ELSE client_sample_diff
            /\ pc' = "lint"
            /\ Continue
       ELSE \* file not found, open() raised, or nothing was supplied
            /\ Exit(1, "input")
            /\ UNCHANGED diff_content
    /\ UNCHANGED <<inputVars, client, close_calls, db_collections, db_calls, lintVars>>
    /\ UNCHANGED <<printed, rerunVars>>

\* the calls _discover_collections makes for the user collections from the
\* n-th on; failed holds the collections whose list_indexes raised
RECURSIVE DiscoverCalls(_, _, _)
DiscoverCalls(cs, n, failed) ==
    IF n > Len(cs) THEN <<>>
    ELSE (IF n \in failed
          THEN <<DbCall(0, "list_indexes", cs[n])>>
          ELSE <<DbCall(0, "list_indexes", cs[n]), DbCall(0, "count_documents", cs[n])>>)
         \o DiscoverCalls(cs, n + 1, failed)

S_systemdot ==
    <<"s", "y", "s", "t", "e", "m", ".">>

\* AtlasLinter() / ClientLinter(): _connect, then _ensure_sample_data or
\* _discover_collections
InitLinter ==
    /\ pc = "init"
    /\ \E connect \in {"connected", "invalid_uri", "ping_failed"} :
         /\ printed' = ConnectOutput(mongo, connect)
         /\ IF connect = "invalid_uri"
            THEN \* MongoClient(...) raised: self.client is still None
                 /\ Exit(1, "connect")
                 /\ UNCHANGED <<client, db_collections, db_calls>>
            ELSE IF connect = "ping_failed"
            THEN \* the client object exists, no connection was established
                 /\ client' = "created"
                 /\ Exit(1, "connect")
                 /\ UNCHANGED <<db_collections, db_calls>>
            ELSE /\ client' = "open"
                 /\ IF frontend = "client_main"
                    THEN \* _discover_collections catches every exception
                         /\ \E list_ok \in BOOLEAN :
                              IF list_ok
                              THEN LET user == SelectSeq(db_collections,
                                                   LAMBDA c : ~StartsWithAt(c, 1, S_systemdot))
                                   IN  \E failed \in SUBSET (1..Len(user)) :
                                         db_calls' = db_calls
                                             \o <<DbCall(0, "list_collection_names", <<>>)>>
                                             \o DiscoverCalls(user, 1, failed)
                              ELSE db_calls' = Append(db_calls, DbCall(0, "list_collection_names", <<>>))
                         /\ pc' = "get_diff"
                         /\ Continue
                         /\ UNCHANGED db_collections
                    ELSE \* _ensure_sample_data; an exception reaches the command
                         \E created \in 0..Len(SampleCollections), list_ok \in BOOLEAN :
                           /\ db_calls' = Append(db_calls, DbCall(0, "list_collection_names", <<>>))
                           /\ IF ~list_ok
                              THEN Exit(1, "database") /\ UNCHANGED db_collections
                              ELSE IF db_collections # <<>>
                              THEN /\ pc' = IF frontend = "atlas_collections" THEN "list"
                                            ELSE IF frontend = "atlas_lint" THEN "lint"
                                            ELSE "get_diff"
                                   /\ Continue
                                   /\ UNCHANGED db_collections
                              ELSE \* _create_sample_data, which may raise part-way
                                   /\ db_collections' = SubSeq(SampleCollections, 1, created)
                                   /\ IF created < Len(SampleCollections)
                                      THEN Exit(1, "database")
                                      ELSE /\ pc' = IF frontend = "atlas_collections" THEN "list"
                                                    ELSE IF frontend = "atlas_lint" THEN "lint"
                                                    ELSE "get_diff"
                                           /\ Continue
    /\ UNCHANGED <<inputVars, close_calls, diff_content, lintVars, rerunVars>>

\* a lint_pr that keeps the issue list of the call before
LintExtract_KeepsIssues ==
    /\ pc = "lint"
    /\ queries' = extract_queries_from_diff(diff_content)
    /\ IF Len(queries') = 0
       THEN /\ report' = NoQueriesReport
            /\ pc' = "display"
            /\ UNCHANGED <<k, analyses, issues>>
       ELSE /\ analyses' = <<>>
            /\ issues' = issues
            /\ k' = 1
            /\ pc' = "analyze"
            /\ UNCHANGED report
    /\ UNCHANGED <<inputVars, client, close_calls, db_collections, db_calls,
                   diff_content, parse_calls, exit_code, failure>>
    /\ UNCHANGED <<printed, rerunVars>>

\* lint_pr, up to its loop: the extraction and the early return
LintExtract ==
    /\ pc = "lint"
    /\ queries' = extract_queries_from_diff(diff_content)
    /\ IF Len(queries') = 0
       THEN /\ report' = NoQueriesReport
            /\ pc' = "display"
            /\ UNCHANGED <<k, analyses, issues>>
       ELSE /\ analyses' = <<>>
            /\ issues' = <<>>
            /\ k' = 1
            /\ pc' = "analyze"
            /\ UNCHANGED report
    /\ UNCHANGED <<inputVars, client, close_calls, db_collections, db_calls,
                   diff_content, parse_calls, exit_code, failure>>
    /\ UNCHANGED <<printed, rerunVars>>

\* the call analyze_query_performance makes for the explain plan, with the
\* pipeline or filter it hands to aggregate or find
ExplainCall(rec, query) ==
    IF query.operation = S_aggregate
    THEN [record |-> rec, call |-> "aggregate_explain", collection |-> query.collection,
          argument |-> ParseAggregationPipeline(query.query)]
    ELSE [record |-> rec, call |-> "find_explain", collection |-> query.collection,
          argument |-> ParseQueryString(query.query)]

\* the interpretations of the argument text analyze_query_performance makes
\* before that call
ParseCalls(rec, query) ==
    <<[record |-> rec, parser |-> "_parse_query_string", text |-> query.query,
       result |-> ParseQueryString(query.query)]>>
    \o (IF query.operation = S_aggregate
        THEN <<[record |-> rec, parser |-> "_parse_aggregation_pipeline", text |-> query.query,
                result |-> ParseAggregationPipeline(query.query)]>>
        ELSE <<>>)

\* what the database is asked for a record: the explain call without the
\* record it is made for
Request(query) ==
    ExplainCall(0, query)

\* how the database answered a request: the explain response, or which of
\* the calls raised or found the collection missing
Answer(request, outcome, explain_result) ==
    IF outcome = "explained"
    THEN [request |-> request, outcome |-> outcome, explain_result |-> explain_result]
    ELSE [request |-> request, outcome |-> outcome]

\* a database whose responses do not change answers a request it has
\* answered before in the same way
Answered(request, outcome, explain_result) ==
    \A n \in 1..Len(answers) :
        answers[n].request = request
            => answers[n] = Answer(request, outcome, explain_result)

\* an existence check that finds every collection
InDatabase_FindsAll(collection_name) ==
    TRUE

\* does collection_name occur in the list list_collection_names returned
InDatabase(collection_name) ==
    \E n \in 1..Len(db_collections) : db_collections[n] = collection_name

\* a loop that analyzes every record, resolved or not
ShouldAnalyze_Always(query) ==
    TRUE

\* the test lint_pr makes before it analyzes a record
ShouldAnalyze(query) ==
    query.collection # S_unknown

\* one iteration of the loop of lint_pr, analyze_query_performance included
AnalyzeQuery ==
    /\ pc = "analyze"
    /\ k <= Len(queries)
    /\ LET query == queries[k]
           request == Request(query)
       IN  IF ShouldAnalyze(query)
           THEN \E outcome \in {"explained", "raised", "absent", "list_raised"},
                   explain_result \in ExplainResponses :
                  /\ outcome \in {"absent", "list_raised"} => frontend = "client_main"
                  /\ outcome = "absent" => ~InDatabase(query.collection)
                  /\ outcome \in {"explained", "raised"} /\ frontend = "client_main"
                         => InDatabase(query.collection)
                  /\ run > 0 => Answered(request, outcome, explain_result)
                  /\ LET checked == IF frontend = "client_main"
                                    THEN <<DbCall(k, "list_collection_names", <<>>)>>
                                    ELSE <<>>
                         analysis ==
                             CASE outcome = "explained" ->
                                      AnalysisOf(query.collection, query.query,
                                                 query.operation, explain_result)
                               [] outcome = "raised" ->
                                      ErrorAnalysis(query.collection, query.query,
                                                    query.operation, "explain raised")
                               [] outcome = "list_raised" ->
                                      ErrorAnalysis(query.collection, query.query,
                                                    query.operation, "list_collection_names raised")
                               [] outcome = "absent" ->
                                      ErrorAnalysis(query.collection, query.query,
                                                    query.operation, "not found in client database")
                     IN  /\ db_calls' = db_calls \o checked \o
                                (IF outcome \in {"explained", "raised"}
                                 THEN <<ExplainCall(k, query)>> ELSE <<>>)
                         /\ parse_calls' = parse_calls \o
                                (IF outcome \in {"explained", "raised"}
                                 THEN ParseCalls(k, query) ELSE <<>>)
                         /\ analyses' = Append(analyses, analysis)
                         /\ issues' = issues \o StaticIssues(query) \o DynamicIssues(query, analysis)
                         /\ answers' = IF run > 0
                                        THEN Append(answers, Answer(request, outcome, explain_result))
                                        ELSE answers
           ELSE UNCHANGED <<db_calls, parse_calls, analyses, issues, answers>>
    /\ k' = k + 1
    /\ UNCHANGED <<inputVars, pc, client, close_calls, db_collections, diff_content,
                   queries, report, exit_code, failure>>
    /\ UNCHANGED <<printed, run, first_report>>

\* lint_pr after its loop: the report
GenerateReport ==
    /\ pc = "analyze"
    /\ k > Len(queries)
    /\ report' = ReportOf(queries, analyses, issues)
    /\ pc' = "display"
    /\ UNCHANGED <<inputVars, client, close_calls, db_collections, db_calls,
                   diff_content, queries, k, analyses, issues, parse_calls,
                   exit_code, failure>>
    /\ UNCHANGED <<printed, rerunVars>>

\* the report keys a command reads to display its results
DisplayedKeys ==
    IF frontend = "atlas_test"
    THEN {"success", "issues_found"}
    ELSE {"success", "total_queries", "queries_analyzed", "issues_found", "queries", "issues"}

\* the display of the results; a missing key raises KeyError, which the
\* except branch of the command turns into exit 1
DisplayResults ==
    /\ pc = "display"
    /\ IF DisplayedKeys \subseteq DOMAIN report
       THEN pc' = "check_exit" /\ Continue
       ELSE Exit(1, "KeyError")
    /\ UNCHANGED <<inputVars, client, close_calls, db_collections, db_calls,
                   diff_content, lintVars>>
    /\ UNCHANGED <<printed, rerunVars>>

\* the exit check, then linter.close() and the normal end of the command
CheckExit ==
    /\ pc = "check_exit"
    /\ IF fail_on_issues /\ report.issues_found > 0
       THEN /\ Exit(1, "issues")
            /\ UNCHANGED <<client, close_calls>>
       ELSE /\ IF client # "none"
               THEN client' = "closed" /\ close_calls' = close_calls + 1
               ELSE UNCHANGED <<client, close_calls>>
            /\ Exit(0, "none")
    /\ UNCHANGED <<inputVars, db_collections, db_calls, diff_content, lintVars>>
    /\ UNCHANGED <<printed, rerunVars>>

\* the calls the collections command makes, in order
RECURSIVE CollectionsCalls(_, _)
CollectionsCalls(cs, n) ==
    IF n > Len(cs) THEN <<>>
    ELSE <<DbCall(0, "list_indexes", cs[n]), DbCall(0, "count_documents", cs[n])>>
             \o CollectionsCalls(cs, n + 1)

\* the collections command after AtlasLinter(): any call may raise, which
\* ends the command with exit 1; otherwise linter.close() and the normal end
ListCollections ==
    /\ pc = "list"
    /\ LET calls == <<DbCall(0, "list_collection_names", <<>>)>>
                        \o CollectionsCalls(db_collections, 1)
       IN  \E made \in 1..(Len(calls) + 1) :
             IF made <= Len(calls)
             THEN \* the made-th call raised
                  /\ db_calls' = db_calls \o SubSeq(calls, 1, made)
                  /\ Exit(1, "database")
                  /\ UNCHANGED <<client, close_calls>>
             ELSE /\ db_calls' = db_calls \o calls
                  /\ client' = "closed"
                  /\ close_calls' = close_calls + 1
                  /\ Exit(0, "none")
    /\ UNCHANGED <<inputVars, db_collections, diff_content, lintVars>>
    /\ UNCHANGED <<printed, rerunVars>>

Next ==
    \/ GetDiff
    \/ InitLinter
    \/ LintExtract
    \/ AnalyzeQuery
    \/ GenerateReport
    \/ DisplayResults
    \/ CheckExit
    \/ ListCollections

Spec ==
    Init /\ [][Next]_vars

(***************************************************************************)
(* The extractor on its own: a diff text is drawn, and extracted.          *)
(***************************************************************************)

InitExtract ==
    /\ frontend = "atlas_lint"
    /\ source = "content"
    /\ fail_on_issues = FALSE
    /\ input_text \in {JoinLines(ls) : ls \in SeqsUpTo(LineChoices, MaxLines)}
    /\ pc = "extract"
    /\ client = "none"
    /\ close_calls = 0
    /\ db_collections = <<>>
    /\ db_calls = <<>>
    /\ diff_content = input_text
    /\ queries = <<>>
    /\ k = 0
    /\ analyses = <<>>
    /\ issues = <<>>
    /\ parse_calls = <<>>
    /\ report = NoReport
    /\ exit_code = -1
    /\ failure = "none"
    /\ mongo = DefaultMongo
    /\ printed = <<>>
    /\ run = 0
    /\ answers = <<>>
    /\ first_report = NoReport

ExtractOnly ==
    /\ pc = "extract"
    /\ queries' = extract_queries_from_diff(diff_content)
    /\ pc' = "extracted"
    /\ UNCHANGED <<inputVars, client, close_calls, db_collections, db_calls,
                   diff_content, k, analyses, issues, parse_calls, report,
                   exit_code, failure>>
    /\ UNCHANGED <<printed, rerunVars>>

NextExtract ==
    ExtractOnly

SpecExtract ==
    InitExtract /\ [][NextExtract]_vars

(***************************************************************************)
(* lint_pr on its own: a linter that was constructed is given a diff.      *)
(***************************************************************************)

\* the lines those diffs are made of
LintLineChoices ==
    {L_blank, L_inline, L_absent, L_bare_call, L_var_call, L_aggregate,
     L_aggregate_truncated}

\* longest diff, in lines, given to lint_pr alone
MaxLintLines ==
    2

\* the collections the database holds once the linter is constructed: the
\* Atlas linter creates its sample collections in an empty database
LintDbChoices(variant) ==
    IF variant = "client_main" THEN DbChoices ELSE {<<S_orders>>, SampleCollections}

InitLint ==
    /\ frontend \in LintFrontends
    /\ source = "content"
    /\ fail_on_issues = FALSE
    /\ input_text \in {JoinLines(ls) : ls \in SeqsUpTo(LintLineChoices, MaxLintLines)}
    /\ pc = "lint"
    /\ client = "open"
    /\ close_calls = 0
    /\ db_collections \in LintDbChoices(frontend)
    /\ db_calls = <<DbCall(0, "list_collection_names", <<>>)>>
                     \o (IF frontend = "client_main"
                         THEN DiscoverCalls(db_collections, 1, {})
                         ELSE <<>>)
    /\ diff_content = input_text
    /\ queries = <<>>
    /\ k = 0
    /\ analyses = <<>>
    /\ issues = <<>>
    /\ parse_calls = <<>>
    /\ report = NoReport
    /\ exit_code = -1
    /\ failure = "none"
    /\ mongo = DefaultMongo
    /\ printed = ConnectOutput(mongo, "connected")
    /\ run = 0
    /\ answers = <<>>
    /\ first_report = NoReport

NextLint ==
    \/ LintExtract
    \/ AnalyzeQuery
    \/ GenerateReport

SpecLint ==
    InitLint /\ [][NextLint]_vars

(***************************************************************************)
(* lint_pr called twice on a constructed linter, with the same diff text,  *)
(* against a database whose responses do not change.                       *)
(***************************************************************************)

\* the lines of the diff given to both calls: calls on a collection the
\* database has, on one it lacks, and on an unresolved one
TwiceLineChoices ==
    {L_inline, L_var_call, L_bare_call, L_absent}

\* longest diff, in lines, given to both calls
MaxTwiceLines ==
    2

InitTwice ==
    /\ frontend \in LintFrontends
    /\ source = "content"
    /\ fail_on_issues = FALSE
    /\ input_text \in {JoinLines(ls) : ls \in SeqsUpTo(TwiceLineChoices, MaxTwiceLines)}
    /\ pc = "lint"
    /\ client = "open"
    /\ close_calls = 0
    /\ db_collections \in LintDbChoices(frontend)
    /\ db_calls = <<DbCall(0, "list_collection_names", <<>>)>>
                     \o (IF frontend = "client_main"
                         THEN DiscoverCalls(db_collections, 1, {})
                         ELSE <<>>)
    /\ diff_content = input_text
    /\ queries = <<>>
    /\ k = 0
    /\ analyses = <<>>
    /\ issues = <<>>
    /\ parse_calls = <<>>
    /\ report = NoReport
    /\ exit_code = -1
    /\ failure = "none"
    /\ mongo = DefaultMongo
    /\ printed = ConnectOutput(mongo, "connected")
    /\ run = 1
    /\ answers = <<>>
    /\ first_report = NoReport

\* the second call of lint_pr, made when the first has returned
LintAgain ==
    /\ pc = "display"
    /\ run = 1
    /\ first_report' = report
    /\ run' = 2
    /\ pc' = "lint"
    /\ UNCHANGED <<inputVars, client, close_calls, db_collections, db_calls,
                   diff_content, lintVars, exit_code, failure, printed, answers>>

NextTwice ==
    \/ LintExtract
    \/ AnalyzeQuery
    \/ GenerateReport
    \/ LintAgain

SpecTwice ==
    InitTwice /\ [][NextTwice]_vars

(***************************************************************************)
(* _analyze_query_statically on its own: a record is drawn, and analyzed.  *)
(***************************************************************************)

\* pieces of argument text that hold what the five checks look for, in
\* lower case and in other cases
StaticFragments ==
    <<<<"$", "r", "e", "g", "e", "x", ",">>,
      <<"$", "R", "E", "G", "E", "X", ",">>,
      <<"$", "t", "e", "x", "t", ",">>,
      <<"c", "r", "e", "a", "t", "e", "d", "_", "a", "t", ",">>,
      <<"$", "g", "t", "e", ",">>,
      <<"$", "s", "o", "r", "t", ",">>,
      <<"$", "L", "I", "M", "I", "T", ",">>,
      <<"$", "l", "i", "m", "i", "t", ",">>,
      <<"C", "o", "m", "p", "o", "u", "n", "d", ",">>>>

\* most colons added to an argument text
MaxColons ==
    3

\* the fragments of frags chosen by the index set chosen, from the n-th on
RECURSIVE ConcatChosen(_, _, _)
ConcatChosen(frags, chosen, n) ==
    IF n > Len(frags) THEN <<>>
    ELSE (IF n \in chosen THEN frags[n] ELSE <<>>) \o ConcatChosen(frags, chosen, n + 1)

\* the argument texts drawn: braces around any choice of fragments and
\* colons ({} itself included), and texts of blanks
StaticTexts ==
    {<<"{">> \o ConcatChosen(StaticFragments, chosen, 1) \o [c \in 1..colons |-> ":"] \o <<"}">> :
        chosen \in SUBSET (1..Len(StaticFragments)), colons \in 0..MaxColons}
    \cup {<<" ">>, <<" ", "{", "}", " ">>, <<"{", " ", "}">>}

\* the record of the call db.orders.<op>(<text>) on line 1, with the
\* operation as the extractor writes it or as the bare method name
StaticRecords ==
    {[line_number |-> 1,
      operation   |-> IF c[3] THEN OpNames[c[2]] ELSE OperationOf(patterns[c[2]]),
      query       |-> c[1],
      collection  |-> S_orders,
      full_line   |-> S_dbdot \o S_orders \o CallLiteral(c[2]) \o c[1] \o <<")">>] :
        c \in StaticTexts \X {1, 3} \X BOOLEAN}

InitStatic ==
    /\ frontend = "atlas_lint"
    /\ source = "content"
    /\ fail_on_issues = FALSE
    /\ queries \in {<<r>> : r \in StaticRecords}
    /\ input_text = queries[1].full_line
    /\ pc = "static"
    /\ client = "open"
    /\ close_calls = 0
    /\ db_collections = <<S_orders>>
    /\ db_calls = <<DbCall(0, "list_collection_names", <<>>)>>
    /\ diff_content = input_text
    /\ k = 1
    /\ analyses = <<>>
    /\ issues = <<>>
    /\ parse_calls = <<>>
    /\ report = NoReport
    /\ exit_code = -1
    /\ failure = "none"
    /\ mongo = DefaultMongo
    /\ printed = <<>>
    /\ run = 0
    /\ answers = <<>>
    /\ first_report = NoReport

\* static_issues = self._analyze_query_statically(query)
StaticChecks ==
    /\ pc = "static"
    /\ issues' = StaticIssues(queries[1])
    /\ pc' = "static_done"
    /\ UNCHANGED <<inputVars, client, close_calls, db_collections, db_calls,
                   diff_content, queries, k, analyses, parse_calls, report,
                   exit_code, failure>>
    /\ UNCHANGED <<printed, rerunVars>>

NextStatic ==
    StaticChecks

SpecStatic ==
    InitStatic /\ [][NextStatic]_vars

(***************************************************************************)
(* The explain checks of lint_pr on their own: one resolved record, and    *)
(* one answer of the database around the two thresholds.                   *)
(***************************************************************************)

\* how far below and above a threshold the measured values go
ThresholdMargin ==
    2

\* the explain responses around the thresholds, with either plan stage
ThresholdResponses ==
    {[executionStats |-> [executionTimeMillis |-> ms, totalDocsExamined |-> docs, nReturned |-> 1],
      queryPlanner   |-> [winningPlan |-> [stage |-> stage]]] :
        ms \in (SlowQueryMs - ThresholdMargin)..(SlowQueryMs + ThresholdMargin),
        docs \in (LargeScanDocs - ThresholdMargin)..(LargeScanDocs + ThresholdMargin),
        stage \in {"COLLSCAN", "IXSCAN"}}

InitDynamic ==
    /\ frontend = "atlas_lint"
    /\ source = "content"
    /\ fail_on_issues = FALSE
    /\ input_text \in {L_inline, L_var_call, L_aggregate}
    /\ pc = "dynamic"
    /\ client = "open"
    /\ close_calls = 0
    /\ db_collections = <<S_orders>>
    /\ db_calls = <<DbCall(0, "list_collection_names", <<>>)>>
    /\ diff_content = input_text
    /\ queries = extract_queries_from_diff(diff_content)
    /\ k = 1
    /\ analyses = <<>>
    /\ issues = <<>>
    /\ parse_calls = <<>>
    /\ report = NoReport
    /\ exit_code = -1
    /\ failure = "none"
    /\ mongo = DefaultMongo
    /\ printed = <<>>
    /\ run = 0
    /\ answers = <<>>
    /\ first_report = NoReport

\* the analysis of the record and the explain checks on it
DynamicChecks ==
    /\ pc = "dynamic"
    /\ \E raised \in BOOLEAN, explain_result \in ThresholdResponses :
         LET query == queries[1]
             analysis == IF raised
                         THEN ErrorAnalysis(query.collection, query.query,
                                            query.operation, "explain raised")
                         ELSE AnalysisOf(query.collection, query.query,
                                         query.operation, explain_result)
         IN  /\ db_calls' = Append(db_calls, ExplainCall(1, query))
             /\ parse_calls' = parse_calls \o ParseCalls(1, query)
             /\ analyses' = <<analysis>>
             /\ issues' = DynamicIssues(query, analysis)
    /\ pc' = "dynamic_done"
    /\ UNCHANGED <<inputVars, client, close_calls, db_collections, diff_content,
                   queries, k, report, exit_code, failure>>
    /\ UNCHANGED <<printed, rerunVars>>

NextDynamic ==
    DynamicChecks

SpecDynamic ==
    InitDynamic /\ [][NextDynamic]_vars

(***************************************************************************)
(* _parse_query_string and _parse_aggregation_pipeline on their own: an    *)
(* argument text is drawn, and interpreted.                                *)
(***************************************************************************)

\* what an argument text starts and ends with: nothing, a blank, a quote
ParsePads ==
    {<<>>, <<" ">>, <<"'">>, <<"\"">>, <<" ", "'">>, <<"'", " ">>}

ParseCores ==
    {S_braces, T_one_field, T_two_fields, T_name_value, T_name_value_two_fields,
     T_bare_pair, T_bare_time, T_bare_word, T_filter_and_projection, T_pipeline,
     T_set, T_unclosed, T_truncated_pipeline, T_same_key_twice, T_constants, T_nested}

\* the argument texts drawn
ParseTexts ==
    {pre \o core \o post : pre \in ParsePads, core \in ParseCores, post \in ParsePads}

InitParse ==
    /\ frontend = "atlas_lint"
    /\ source = "content"
    /\ fail_on_issues = FALSE
    /\ input_text \in ParseTexts
    /\ pc = "parse"
    /\ client = "open"
    /\ close_calls = 0
    /\ db_collections = <<S_orders>>
    /\ db_calls = <<DbCall(0, "list_collection_names", <<>>)>>
    /\ diff_content = <<>>
    /\ queries = <<>>
    /\ k = 0
    /\ analyses = <<>>
    /\ issues = <<>>
    /\ parse_calls = <<>>
    /\ report = NoReport
    /\ exit_code = -1
    /\ failure = "none"
    /\ mongo = DefaultMongo
    /\ printed = <<>>
    /\ run = 0
    /\ answers = <<>>
    /\ first_report = NoReport

\* query = self._parse_query_string(query_str)
ParseFilter ==
    /\ pc = "parse"
    /\ parse_calls' = <<[record |-> 0, parser |-> "_parse_query_string", text |-> input_text,
                         result |-> ParseQueryString(input_text)]>>
    /\ pc' = "parsed_filter"
    /\ UNCHANGED <<inputVars, client, close_calls, db_collections, db_calls,
                   diff_content, queries, k, analyses, issues, report, exit_code, failure>>
    /\ UNCHANGED <<printed, rerunVars>>

\* pipeline = self._parse_aggregation_pipeline(query_str)
ParsePipeline ==
    /\ pc = "parse"
    /\ parse_calls' = <<[record |-> 0, parser |-> "_parse_aggregation_pipeline", text |-> input_text,
                         result |-> ParseAggregationPipeline(input_text)]>>
    /\ pc' = "parsed_pipeline"
    /\ UNCHANGED <<inputVars, client, close_calls, db_collections, db_calls,
                   diff_content, queries, k, analyses, issues, report, exit_code, failure>>
    /\ UNCHANGED <<printed, rerunVars>>

NextParse ==
    \/ ParseFilter
    \/ ParsePipeline

SpecParse ==
    InitParse /\ [][NextParse]_vars

(***************************************************************************)
(* The extractor alone on diffs whose lines carry diff markers.            *)
(***************************************************************************)

\* what a line of a unified diff starts with: added, removed, context
Markers ==
    {"+", "-", " "}

\* the lines the marked diffs are made of, before marking
MarkLineChoices ==
    {L_inline, L_binding, L_bare_call, L_var_call, L_two_calls, L_aggregate}

\* longest marked diff, in lines
MaxMarkLines ==
    2

\* the diffs of ls with every marking of the lines
Markings(ls) ==
    {JoinLines([n \in 1..Len(ls) |-> <<ms[n]>> \o ls[n]]) : ms \in [1..Len(ls) -> Markers]}

InitMarkers ==
    /\ frontend = "atlas_lint"
    /\ source = "content"
    /\ fail_on_issues = FALSE
    /\ input_text \in UNION {Markings(ls) : ls \in SeqsUpTo(MarkLineChoices, MaxMarkLines)}
    /\ pc = "extract"
    /\ client = "none"
    /\ close_calls = 0
    /\ db_collections = <<>>
    /\ db_calls = <<>>
    /\ diff_content = input_text
    /\ queries = <<>>
    /\ k = 0
    /\ analyses = <<>>
    /\ issues = <<>>
    /\ parse_calls = <<>>
    /\ report = NoReport
    /\ exit_code = -1
    /\ failure = "none"
    /\ mongo = DefaultMongo
    /\ printed = <<>>
    /\ run = 0
    /\ answers = <<>>
    /\ first_report = NoReport

NextMarkers ==
    ExtractOnly

SpecMarkers ==
    InitMarkers /\ [][NextMarkers]_vars

(***************************************************************************)
(* lint_pr on diffs whose lines hold several calls.                        *)
(***************************************************************************)

\* the lines of these diffs
OrderLineChoices ==
    {L_two_finds, L_reversed_calls, L_bare_call}

\* longest such diff, in lines
MaxOrderLines ==
    2

InitOrder ==
    /\ frontend = "atlas_lint"
    /\ source = "content"
    /\ fail_on_issues = FALSE
    /\ input_text \in {JoinLines(ls) : ls \in SeqsUpTo(OrderLineChoices, MaxOrderLines)}
    /\ pc = "lint"
    /\ client = "open"
    /\ close_calls = 0
    /\ db_collections = SampleCollections
    /\ db_calls = <<DbCall(0, "list_collection_names", <<>>)>>
                     \o (IF frontend = "client_main"
                         THEN DiscoverCalls(db_collections, 1, {})
                         ELSE <<>>)
    /\ diff_content = input_text
    /\ queries = <<>>
    /\ k = 0
    /\ analyses = <<>>
    /\ issues = <<>>
    /\ parse_calls = <<>>
    /\ report = NoReport
    /\ exit_code = -1
    /\ failure = "none"
    /\ mongo = DefaultMongo
    /\ printed = ConnectOutput(mongo, "connected")
    /\ run = 0
    /\ answers = <<>>
    /\ first_report = NoReport

NextOrder ==
    \/ LintExtract
    \/ AnalyzeQuery
    \/ GenerateReport

SpecOrder ==
    InitOrder /\ [][NextOrder]_vars

(***************************************************************************)
(* The extractor alone on diffs long enough to hold a binding out of the   *)
(* reach of the look-back.                                                 *)
(***************************************************************************)

\* the lines of these diffs: two bindings, a call without an inline
\* collection token, a line that is neither
LookBackLineChoices ==
    {L_blank, L_binding, L_binding_users, L_indexed_call}

\* longest such diff, in lines
MaxLookBackLines ==
    5

InitLookBack ==
    /\ frontend = "atlas_lint"
    /\ source = "content"
    /\ fail_on_issues = FALSE
    /\ input_text \in {JoinLines(ls) : ls \in SeqsUpTo(LookBackLineChoices, MaxLookBackLines)}
    /\ pc = "extract"
    /\ client = "none"
    /\ close_calls = 0
    /\ db_collections = <<>>
    /\ db_calls = <<>>
    /\ diff_content = input_text
    /\ queries = <<>>
    /\ k = 0
    /\ analyses = <<>>
    /\ issues = <<>>
    /\ parse_calls = <<>>
    /\ report = NoReport
    /\ exit_code = -1
    /\ failure = "none"
    /\ mongo = DefaultMongo
    /\ printed = <<>>
    /\ run = 0
    /\ answers = <<>>
    /\ first_report = NoReport

NextLookBack ==
    ExtractOnly

SpecLookBack ==
    InitLookBack /\ [][NextLookBack]_vars

(***************************************************************************)
(* The constructor of a linter alone, under every configuration.           *)
(***************************************************************************)

InitConnect ==
    /\ frontend \in LintFrontends
    /\ source = "none"
    /\ fail_on_issues = FALSE
    /\ input_text = <<>>
    /\ pc = "init"
    /\ client = "none"
    /\ close_calls = 0
    /\ db_collections \in DbChoices
    /\ db_calls = <<>>
    /\ diff_content = <<>>
    /\ queries = <<>>
    /\ k = 0
    /\ analyses = <<>>
    /\ issues = <<>>
    /\ parse_calls = <<>>
    /\ report = NoReport
    /\ exit_code = -1
    /\ failure = "none"
    /\ mongo \in MongoChoices
    /\ printed = <<>>
    /\ run = 0
    /\ answers = <<>>
    /\ first_report = NoReport

NextConnect ==
    InitLinter

SpecConnect ==
    InitConnect /\ [][NextConnect]_vars

(***************************************************************************)
(* Properties of the extractor.                                            *)
(***************************************************************************)

\* the lines of the diff handed to lint_pr
DiffLines ==
    Split(diff_content, "\n")

\* position of the ")" that closes the parenthesis open at depth when the
\* scan is at j, 0 when the line ends first
RECURSIVE MatchingClose(_, _, _)
MatchingClose(line, j, depth) ==
    IF j > Len(line) THEN 0
    ELSE IF line[j] = "(" THEN MatchingClose(line, j + 1, depth + 1)
    ELSE IF line[j] = ")"
         THEN (IF depth = 1 THEN j ELSE MatchingClose(line, j + 1, depth - 1))
    ELSE MatchingClose(line, j + 1, depth)

\* the well-formed calls of a line: ".<op>(" with its parenthesis closed
WellFormedCalls(line) ==
    {c \in (1..Len(line)) \X (1..Len(OpNames)) :
        /\ StartsWithAt(line, c[1], CallLiteral(c[2]))
        /\ MatchingClose(line, c[1] + Len(CallLiteral(c[2])), 1) # 0}

\* C1: a diff with N well-formed single-line calls, empty argument lists
\* and nested parentheses included, yields N records, each with the 1-based
\* number of the line that holds its call
C1_EveryCallExtracted ==
    pc = "extracted" =>
        \A i \in 1..Len(DiffLines) :
            Cardinality({j \in 1..Len(queries) : queries[j].line_number = i})
                = Cardinality(WellFormedCalls(DiffLines[i]))

\* C2: the operation of every record is one of the seven method names, and
\* it is the method the matched call invokes
C2_OperationIsMethodName ==
    pc = "extracted" =>
        \A j \in 1..Len(queries) :
            \E n \in 1..Len(OpNames) :
                /\ queries[j].operation = OpNames[n]
                /\ Contains(DiffLines[queries[j].line_number],
                            CallLiteral(n) \o queries[j].query \o <<")">>)

\* the maximal run of \w characters that ends right before position p
WordBefore(line, p) ==
    IF p <= 1 \/ line[p - 1] \notin WordChars THEN <<>>
    ELSE LET s == CHOOSE b \in 1..(p - 1) :
                      /\ \A h \in b..(p - 1) : line[h] \in WordChars
                      /\ (b = 1 \/ line[b - 1] \notin WordChars)
         IN  SubSeq(line, s, p - 1)

\* C8: each matched call that is immediately preceded by an inline
\* <name>.<op> or db.<name>.<op> token has a record whose collection is that
\* <name>, also when one line holds several calls on different collections
C8_InlineTokenPerCall ==
    pc = "extracted" =>
        \A i \in 1..Len(DiffLines), n \in 1..Len(OpNames) :
            LET ms == FindIter(n, DiffLines[i], 1)
            IN  \A m \in 1..Len(ms) :
                    WordBefore(DiffLines[i], ms[m].start) # <<>> =>
                        \E j \in 1..Len(queries) :
                            /\ queries[j].line_number = i
                            /\ queries[j].operation = OperationOf(patterns[n])
                            /\ queries[j].query = ms[m].group1
                            /\ queries[j].collection = WordBefore(DiffLines[i], ms[m].start)

(***************************************************************************)
(* Properties of lint_pr and of the front-ends.                            *)
(***************************************************************************)

\* C3: a lint command exits with 1 exactly when --fail-on-issues is set and
\* the report has an issue, or a diff-input or connection error occurred;
\* every other run, one that finds no query call included, exits with 0
C3_ExitCode ==
    (pc = "done" /\ frontend \in LintFrontends) =>
        exit_code =
            IF \/ fail_on_issues /\ report # NoReport /\ Len(report.issues) > 0
               \/ failure \in {"input", "connect", "database"}
            THEN 1 ELSE 0

\* the indexes of the records whose collection was resolved
Resolved(qs) ==
    {j \in 1..Len(qs) : qs[j].collection # S_unknown}

\* C4: every report holds total_queries, queries_analyzed and issues_found,
\* equal to the number of records, of records with a resolved collection,
\* and of issues
C4_ReportCounts ==
    report # NoReport =>
        /\ {"total_queries", "queries_analyzed", "issues_found"} \subseteq DOMAIN report
        /\ report.total_queries = Len(queries)
        /\ report.queries_analyzed = Cardinality(Resolved(queries))
        /\ report.issues_found = Len(report.issues)

\* C5: in every report, the no-queries report included, success is true
\* exactly when the issue list is empty
C5_SuccessIffNoIssues ==
    report # NoReport => (report.success <=> Len(report.issues) = 0)

\* a report on analyzed records that lists an issue and is not a success
C5_Witness ==
    /\ report # NoReport
    /\ "analyses" \in DOMAIN report
    /\ Len(report.analyses) > 0
    /\ Len(report.issues) > 0
    /\ ~report.success

\* C6: every record whose argument text trims to {} or to nothing has a
\* HIGH EMPTY_QUERY issue in the report, whatever the database did and
\* whether or not its collection was resolved
C6_EmptyQueryAlwaysFlagged ==
    report # NoReport =>
        \A j \in 1..Len(queries) :
            Strip(queries[j].query) \in {S_braces, <<>>} =>
                \E n \in 1..Len(report.issues) :
                    /\ Get(report.issues[n], "type", "none") = "EMPTY_QUERY"
                    /\ report.issues[n].severity = "HIGH"
                    /\ report.issues[n].query = queries[j]

\* a <name>.<op> token: a \w character, a ".", and the start of an operation
HasInlineToken(line) ==
    \E p \in 1..Len(line) :
        /\ line[p] \in WordChars
        /\ StartsWithAt(line, p + 1, <<".">>)
        /\ \E a \in 1..Len(CollectionOps) : StartsWithAt(line, p + 2, CollectionOps[a])

\* a <var> = db.<name> binding: a \w character, blanks, "=", blanks, "db."
\* and a \w character
HoldsBinding(line) ==
    \E q \in 1..Len(line) :
        /\ line[q] = "="
        /\ \E p \in 1..(q - 1) :
               /\ line[p] \in WordChars
               /\ \A h \in (p + 1)..(q - 1) : line[h] \in SpaceChars
        /\ \E d \in (q + 1)..Len(line) :
               /\ \A h \in (q + 1)..(d - 1) : line[h] \in SpaceChars
               /\ StartsWithAt(line, d, S_dbdot)
               /\ d + Len(S_dbdot) <= Len(line)
               /\ line[d + Len(S_dbdot)] \in WordChars

\* the lines a record's binding is looked for in: the 3 before its own
LinesBefore(lines, j) ==
    {lines[h] : h \in Max(1, queries[j].line_number - 3)..(queries[j].line_number - 1)}

\* C7: db.orders.find(...) resolves to orders; orders.find(...) within 3
\* lines after orders = db.orders resolves to orders; a call line with no
\* inline token and no binding in the 3 lines before it resolves to unknown,
\* and no explain analysis is run for its record
C7_CollectionResolution ==
    LET lines == DiffLines
    IN  \A j \in 1..Len(queries) :
            LET line == lines[queries[j].line_number]
            IN  /\ StartsWithAt(line, 1, S_inline_call) => queries[j].collection = S_orders
                /\ (StartsWithAt(line, 1, S_var_call) /\ L_binding \in LinesBefore(lines, j))
                       => queries[j].collection = S_orders
                /\ (~HasInlineToken(line) /\ \A b \in LinesBefore(lines, j) : ~HoldsBinding(b))
                       => /\ queries[j].collection = S_unknown
                          /\ \A c \in 1..Len(db_calls) : db_calls[c].record # j
                          /\ \A a \in 1..Len(analyses) : analyses[a].collection # S_unknown

\* a finished run on orders = db.orders followed by orders.find(...), and on
\* a call line with neither token nor binding
C7_Witness ==
    /\ pc = "done"
    /\ \E j \in 1..Len(queries) :
           /\ StartsWithAt(DiffLines[queries[j].line_number], 1, S_var_call)
           /\ L_binding \in LinesBefore(DiffLines, j)
           /\ queries[j].collection = S_orders

\* C9: a record whose collection is unknown is kept in the report's
\* queries, adds no analysis and causes no database call
C9_UnknownNotAnalyzed ==
    /\ \A c \in 1..Len(db_calls) :
           db_calls[c].record > 0 => queries[db_calls[c].record].collection # S_unknown
    /\ \A a \in 1..Len(analyses) : analyses[a].collection # S_unknown
    /\ pc = "analyze" => Len(analyses) = Cardinality(Resolved(SubSeq(queries, 1, k - 1)))
    /\ "analyses" \in DOMAIN report =>
           /\ report.queries = queries
           /\ Len(report.analyses) = Cardinality(Resolved(queries))

\* a finished run whose report keeps an unresolved record next to an
\* analyzed one
C9_Witness ==
    /\ pc = "done"
    /\ "analyses" \in DOMAIN report
    /\ Len(report.analyses) > 0
    /\ \E j \in 1..Len(report.queries) : report.queries[j].collection = S_unknown
    /\ \E c \in 1..Len(db_calls) : db_calls[c].record > 0

\* C10: a front-end that opened a connection has called close() on it
\* exactly once when the process ends, on every exit path
C10_ClosedExactlyOnce ==
    (pc = "done" /\ client \in {"open", "closed"}) => close_calls = 1

(***************************************************************************)
(* Properties of the analysis of one record.                               *)
(***************************************************************************)

\* a record extracted from an .aggregate( call: its operation is the tag of
\* the third pattern
IsAggregateRecord(query) ==
    query.operation = OperationOf(patterns[3])

\* the explain calls among the database calls
IsExplainCall(call) ==
    call.record > 0 /\ call.call \in {"find_explain", "aggregate_explain"}

\* C11: for a record of an .aggregate( call the argument text is
\* interpreted as a pipeline and the explain of collection.aggregate(pipeline)
\* is requested, never a find explain; for a record of any other operation
\* the explain of collection.find(filter) is requested
C11_AggregateExplainedAsPipeline ==
    \A c \in 1..Len(db_calls) :
        IsExplainCall(db_calls[c]) =>
            LET query == queries[db_calls[c].record]
            IN  IF IsAggregateRecord(query)
                THEN /\ db_calls[c].call = "aggregate_explain"
                     /\ db_calls[c].argument = ParseAggregationPipeline(query.query)
                     /\ \E p \in 1..Len(parse_calls) :
                            /\ parse_calls[p].record = db_calls[c].record
                            /\ parse_calls[p].parser = "_parse_aggregation_pipeline"
                ELSE /\ db_calls[c].call = "find_explain"
                     /\ db_calls[c].argument = ParseQueryString(query.query)

\* the records the loop of lint_pr has passed
Processed(j) ==
    j < k

\* C12: an aggregate record whose argument text is not valid literal syntax
\* raises nothing to the caller, the query submitted for it is the default
\* pipeline [{"$match": {}}], and every later record is still processed
C12_MalformedPipelineDefaults ==
    \A j \in 1..Len(queries) :
        (/\ Processed(j)
         /\ IsAggregateRecord(queries[j])
         /\ queries[j].collection # S_unknown
         /\ ~Eval(queries[j].query).ok)
            => /\ failure = "none"
               /\ \A c \in 1..Len(db_calls) :
                      (IsExplainCall(db_calls[c]) /\ db_calls[c].record = j)
                          => db_calls[c].argument = DefaultPipeline
               /\ pc = "display" => k > Len(queries)

\* a report lint_pr generated after its loop
Generated(r) ==
    "analyses" \in DOMAIN r

\* C13: every record of an .aggregate( call on a resolved collection whose
\* argument text contains sort and not limit has a MEDIUM SORT_WITHOUT_LIMIT
\* issue in the issue list lint_pr returns
C13_SortWithoutLimitReported ==
    Generated(report) =>
        \A j \in 1..Len(queries) :
            (/\ IsAggregateRecord(queries[j])
             /\ queries[j].collection # S_unknown
             /\ Contains(queries[j].query, S_sort)
             /\ ~Contains(queries[j].query, S_limit))
                => \E n \in 1..Len(report.issues) :
                       /\ Get(report.issues[n], "type", "none") = "SORT_WITHOUT_LIMIT"
                       /\ report.issues[n].severity = "MEDIUM"
                       /\ report.issues[n].query = queries[j]

\* the positions of the issues of a type in a list of issues
IssuesOfType(is, type) ==
    {n \in 1..Len(is) : Get(is[n], "type", "none") = type}

\* exactly one issue of the type, of the severity, when the condition
\* holds, and none when it does not
OnePerCondition(is, type, severity, condition) ==
    IF condition
    THEN \E n \in 1..Len(is) : IssuesOfType(is, type) = {n} /\ is[n].severity = severity
    ELSE IssuesOfType(is, type) = {}

StaticTypes ==
    {"EMPTY_QUERY", "REGEX_WITHOUT_INDEX", "DATE_RANGE_QUERY", "SORT_WITHOUT_LIMIT",
     "MULTI_FIELD_QUERY"}

\* C14: _analyze_query_statically returns exactly one issue per condition
\* of the static table that holds and none for one that does not, each
\* condition on its own: EMPTY_QUERY (HIGH) iff the text trims to {} or to
\* nothing; REGEX_WITHOUT_INDEX (MEDIUM) iff the lower-cased text contains
\* regex and not text; DATE_RANGE_QUERY (MEDIUM) iff the text contains
\* created_at and gte; SORT_WITHOUT_LIMIT (MEDIUM) iff the operation is
\* aggregate and the text contains sort and not limit; MULTI_FIELD_QUERY
\* (LOW) iff the text has more than 2 colons and the lower-cased text lacks
\* compound
C14_StaticTable ==
    pc = "static_done" =>
        LET text == queries[1].query
            lowered == Lower(text)
        IN  /\ OnePerCondition(issues, "EMPTY_QUERY", "HIGH",
                               Strip(text) = S_braces \/ Strip(text) = <<>>)
            /\ OnePerCondition(issues, "REGEX_WITHOUT_INDEX", "MEDIUM",
                               Contains(lowered, S_regex) /\ ~Contains(lowered, S_text))
            /\ OnePerCondition(issues, "DATE_RANGE_QUERY", "MEDIUM",
                               Contains(text, S_created_at) /\ Contains(text, S_gte))
            /\ OnePerCondition(issues, "SORT_WITHOUT_LIMIT", "MEDIUM",
                               /\ queries[1].operation = S_aggregate
                               /\ Contains(text, S_sort)
                               /\ ~Contains(text, S_limit))
            /\ OnePerCondition(issues, "MULTI_FIELD_QUERY", "LOW",
                               CountChar(text, ":") >= 3 /\ ~Contains(lowered, S_compound))
            /\ \A n \in 1..Len(issues) :
                   /\ Get(issues[n], "type", "none") \in StaticTypes
                   /\ issues[n].query = queries[1]

\* a record that yields four issues at once, the sort and the multi-field
\* issue among them
C14_Witness ==
    /\ pc = "static_done"
    /\ Len(issues) = 4
    /\ IssuesOfType(issues, "SORT_WITHOUT_LIMIT") # {}
    /\ IssuesOfType(issues, "MULTI_FIELD_QUERY") # {}

\* the positions of the issues with a message text in a list of issues
IssuesSaying(is, text) ==
    {n \in 1..Len(is) : is[n].message.text = text}

\* exactly one issue with the message text, of the severity, when the
\* condition holds, and none when it does not
OneSaying(is, text, severity, condition) ==
    IF condition
    THEN \E n \in 1..Len(is) : IssuesSaying(is, text) = {n} /\ is[n].severity = severity
    ELSE IssuesSaying(is, text) = {}

\* C15: for an analyzed record lint_pr adds a HIGH collection-scan issue
\* iff is_collection_scan is true, a MEDIUM slow-query issue iff
\* execution_time_ms is more than 100 (100 adds none) and a MEDIUM
\* large-scan issue iff documents_examined is more than 1000 (1000 adds
\* none), each test on its own, so zero to three issues; the slow-query
\* and large-scan messages hold the measured value
C15_ExplainThresholds ==
    pc = "dynamic_done" =>
        LET a == analyses[1]
        IN  /\ OneSaying(issues, "Collection scan detected on line", "HIGH",
                         a.is_collection_scan)
            /\ OneSaying(issues, "Slow query detected on line", "MEDIUM",
                         a.execution_time_ms >= 101)
            /\ OneSaying(issues, "Large document scan on line", "MEDIUM",
                         a.documents_examined >= 1001)
            /\ Len(issues) = Cardinality(
                   IssuesSaying(issues, "Collection scan detected on line")
                       \cup IssuesSaying(issues, "Slow query detected on line")
                       \cup IssuesSaying(issues, "Large document scan on line"))
            /\ \A n \in IssuesSaying(issues, "Slow query detected on line") :
                   issues[n].message.value = a.execution_time_ms
            /\ \A n \in IssuesSaying(issues, "Large document scan on line") :
                   issues[n].message.value = a.documents_examined
            /\ \A n \in 1..Len(issues) :
                   /\ issues[n].query = queries[1]
                   /\ issues[n].message.line = queries[1].line_number

\* an analysis that adds all three issues, with the time one above its
\* threshold
C15_Witness ==
    /\ pc = "dynamic_done"
    /\ Len(issues) = 3
    /\ analyses[1].execution_time_ms = 101

IssueTypes ==
    StaticTypes \cup {"COLLECTION_SCAN", "SLOW_QUERY", "LARGE_SCAN"}

\* C16: every issue of every report has a type field with one of the eight
\* values, and the issues of the explain thresholds have COLLECTION_SCAN,
\* SLOW_QUERY and LARGE_SCAN
C16_EveryIssueTyped ==
    report # NoReport =>
        \A n \in 1..Len(report.issues) :
            LET issue == report.issues[n]
            IN  /\ "type" \in DOMAIN issue
                /\ issue.type \in IssueTypes
                /\ issue.message.text = "Collection scan detected on line"
                       => issue.type = "COLLECTION_SCAN"
                /\ issue.message.text = "Slow query detected on line"
                       => issue.type = "SLOW_QUERY"
                /\ issue.message.text = "Large document scan on line"
                       => issue.type = "LARGE_SCAN"

\* the analysis of the j-th record, which is a resolved one
AnalysisOfRecord(j) ==
    analyses[Cardinality({h \in 1..j : queries[h].collection # S_unknown})]

\* C17: for every extracted record the static issues in the report are
\* those its argument text and operation give, whether the explain call
\* succeeded, failed or was never made, and the dynamic issues are those
\* the explain result gives, however many static issues fired
C17_NoShortCircuit ==
    Generated(report) =>
        \A j \in 1..Len(queries) :
            /\ SelectSeq(report.issues,
                         LAMBDA i : "type" \in DOMAIN i /\ i.query = queries[j])
                   = StaticIssues(queries[j])
            /\ SelectSeq(report.issues,
                         LAMBDA i : "analysis" \in DOMAIN i /\ i.query = queries[j])
                   = IF queries[j].collection # S_unknown
                     THEN DynamicIssues(queries[j], AnalysisOfRecord(j))
                     ELSE <<>>

\* an analysis returned without an explain response
IsErrorResult(a) ==
    "raw_explain" \notin DOMAIN a

\* C18: analyze_query_performance raises nothing to lint_pr: when the
\* explain call or a step before it throws, its result has the error set,
\* execution_time_ms and documents_examined 0, index_used null and
\* is_collection_scan false; lint_pr processes every remaining record and
\* returns a report
C18_ErrorsRecovered ==
    /\ failure = "none"
    /\ \A n \in 1..Len(analyses) :
           IsErrorResult(analyses[n]) =>
               /\ "error" \in DOMAIN analyses[n]
               /\ analyses[n].execution_time_ms = 0
               /\ analyses[n].documents_examined = 0
               /\ analyses[n].index_used = "None"
               /\ analyses[n].is_collection_scan = FALSE
    /\ pc = "analyze" =>
           Len(analyses) = Cardinality({j \in 1..(k - 1) : queries[j].collection # S_unknown})
    /\ (pc = "display" /\ Len(queries) > 0) =>
           /\ Generated(report)
           /\ report.analyses = analyses
           /\ Len(analyses) = Cardinality(Resolved(queries))

\* a report on two records, the explain call of the first of which raised
C18_Witness ==
    /\ pc = "display"
    /\ Generated(report)
    /\ Len(report.analyses) = 2
    /\ IsErrorResult(report.analyses[1])
    /\ report.analyses[1].error = "explain raised"
    /\ ~IsErrorResult(report.analyses[2])

\* the database calls made for the j-th record
CallsFor(j) ==
    {c \in 1..Len(db_calls) : db_calls[c].record = j}

Trimmed(s) ==
    StripChars(Strip(s), QuoteChars)

\* C20: _parse_query_string strips the blanks and quotes around the text;
\* if the text holds both { and } and evaluates as a literal, the result is
\* that value; otherwise, if the text holds a colon, the result is the
\* one-entry mapping from the text before the first colon to all the text
\* after the first colon, each trimmed of blanks and quotes; otherwise the
\* result is the empty mapping
C20_ParseQueryString ==
    pc = "parsed_filter" =>
        LET cleaned == Trimmed(parse_calls[1].text)
            result == parse_calls[1].result
            colon == IndexOf(cleaned, ":", 1)
        IN  IF Contains(cleaned, <<"{">>) /\ Contains(cleaned, <<"}">>) /\ Eval(cleaned).ok
            THEN result = Eval(cleaned).val
            ELSE IF colon > 0
            THEN result = PyDict(<<[key |-> PyStr(Trimmed(SubSeq(cleaned, 1, colon - 1))),
                                    val |-> PyStr(Trimmed(SubSeq(cleaned, colon + 1, Len(cleaned))))]>>)
            ELSE result = PyDict(<<>>)

\* a mapping: what find takes as a filter
IsMapping(value) ==
    value.t = "dict"

\* a sequence of stage mappings: what aggregate takes as a pipeline
IsPipeline(value) ==
    /\ value.t = "list"
    /\ \A n \in 1..Len(value.v) : IsMapping(value.v[n])

\* C25: whatever the argument text, _parse_query_string returns a mapping,
\* never a tuple, a set, a list or a scalar, and
\* _parse_aggregation_pipeline returns a sequence of stage mappings
C25_StructuredQueryShape ==
    /\ pc = "parsed_filter" => IsMapping(parse_calls[1].result)
    /\ pc = "parsed_pipeline" => IsPipeline(parse_calls[1].result)

(***************************************************************************)
(* Properties of _connect.                                                 *)
(***************************************************************************)

\* the password a connection string carries: its user information is the
\* text between "://" and the last "@", the password what follows the first
\* ":" of that; empty when it carries none
EmbeddedPassword(connection_string) ==
    LET S == connection_string
        ats == {p \in 1..Len(S) : S[p] = "@"}
        starts == {p \in 1..Len(S) : StartsWithAt(S, p, <<":", "/", "/">>)}
    IN  IF ats = {} \/ starts = {} THEN <<>>
        ELSE LET at == CHOOSE p \in ats : \A q \in ats : q <= p
                 start == CHOOSE p \in starts : \A q \in starts : p <= q
                 userinfo == SubSeq(S, start + 3, at - 1)
                 colon == IndexOf(userinfo, ":", 1)
             IN  IF colon = 0 THEN <<>>
                 ELSE SubSeq(userinfo, colon + 1, Len(userinfo))

\* the passwords of a configuration: the password field and the one
\* embedded in the configured connection string
Passwords(m) ==
    ((IF Truthy(m.password) THEN {m.password.v} ELSE {})
         \cup {EmbeddedPassword(m.connection_string)}) \ {<<>>}

\* C21: when _connect fails the run ends with a non-zero exit code and no
\* line _connect printed holds the password, whether it was configured as
\* the password field or inside the connection string
C21_PasswordNeverPrinted ==
    failure = "connect" =>
        /\ exit_code # 0
        /\ \A n \in 1..Len(printed) :
               \A password \in Passwords(mongo) :
                   ~Contains(printed[n].text, password)

(***************************************************************************)
(* Properties of repeated calls of lint_pr.                                *)
(***************************************************************************)

\* a key of a report, "None" when the report lacks it
ReportKey(r, key) ==
    IF key \in DOMAIN r THEN r[key] ELSE "None"

\* the (type, severity) pair of an issue; an issue without a type has None
TypeAndSeverity(issue) ==
    <<IF "type" \in DOMAIN issue THEN issue.type ELSE "None", issue.severity>>

\* how many issues of a report have the pair
CountOf(r, pair) ==
    Cardinality({n \in 1..Len(r.issues) : TypeAndSeverity(r.issues[n]) = pair})

PairsOf(r) ==
    {TypeAndSeverity(r.issues[n]) : n \in 1..Len(r.issues)}

\* the database calls that only read: the listings and counts of the
\* constructor and of the existence check, and find(...).explain(...)
ReadCalls ==
    {"list_collection_names", "list_indexes", "count_documents", "find_explain"}

\* C22: a second call of lint_pr with the same diff text, against a database
\* that answers as before, returns a report with the same total_queries, the
\* same queries_analyzed and the same multiset of issue (type, severity)
\* pairs as the first; lint_pr makes no call that writes to the database
C22_SecondRunSameReport ==
    /\ \A n \in 1..Len(db_calls) : db_calls[n].call \in ReadCalls
    /\ run = 2 /\ pc = "display" =>
        /\ ReportKey(report, "total_queries") = ReportKey(first_report, "total_queries")
        /\ ReportKey(report, "queries_analyzed") = ReportKey(first_report, "queries_analyzed")
        /\ \A pair \in PairsOf(report) \cup PairsOf(first_report) :
               CountOf(report, pair) = CountOf(first_report, pair)

\* a second call has returned a report with an issue of each kind: typed
\* from the static checks and untyped from the explain checks
C22_Witness ==
    /\ run = 2
    /\ pc = "display"
    /\ ReportKey(report, "queries_analyzed") = 2
    /\ \E n \in 1..Len(report.issues) : "type" \in DOMAIN report.issues[n]
    /\ \E n \in 1..Len(report.issues) : "type" \notin DOMAIN report.issues[n]

(***************************************************************************)
(* Properties of the extractor on marked diffs.                            *)
(***************************************************************************)

\* the diff without the marker each of its lines starts with
Unmarked(text) ==
    LET lines == Split(text, "\n")
    IN  JoinLines([n \in 1..Len(lines) |->
                      IF lines[n] # <<>> /\ lines[n][1] \in Markers
                      THEN Tail(lines[n]) ELSE lines[n]])

\* what a record says of its call
CallOf(query) ==
    [line_number |-> query.line_number, operation |-> query.operation,
     query |-> query.query, collection |-> query.collection]

\* the static issues of a record, without the record they embed
StaticKinds(query) ==
    LET found == StaticIssues(query)
    IN  [n \in 1..Len(found) |-> <<found[n].type, found[n].severity, found[n].message>>]

\* C23: the extractor does not look at diff markers: the records of a diff
\* whose lines start with "+", "-" or a blank are, in operation, argument
\* text, collection and line number, the records of the same lines without
\* the markers, and they raise the same static issues
C23_MarkersNotFiltered ==
    pc = "extracted" =>
        LET plain == extract_queries_from_diff(Unmarked(diff_content))
        IN  /\ Len(queries) = Len(plain)
            /\ \A n \in 1..Len(queries) :
                   /\ CallOf(queries[n]) = CallOf(plain[n])
                   /\ StaticKinds(queries[n]) = StaticKinds(plain[n])

\* a removed line and an added line have both given a record
C23_Witness ==
    /\ pc = "extracted"
    /\ \E n \in 1..Len(queries) : queries[n].full_line[1] = "-"
    /\ \E n \in 1..Len(queries) : queries[n].full_line[1] = "+"
    /\ \E n \in 1..Len(queries) : queries[n].collection # S_unknown

(***************************************************************************)
(* Properties of the order lint_pr works in.                               *)
(***************************************************************************)

\* which of the seven patterns gave a record
PatternIndex(query) ==
    CHOOSE n \in 1..Len(patterns) : OperationOf(patterns[n]) = query.operation

\* where in its line the call of a record is written first
CallPosition(query, lines) ==
    LET line == lines[query.line_number]
        call == CallLiteral(PatternIndex(query)) \o query.query \o <<")">>
    IN  CHOOSE p \in 1..Len(line) :
            /\ StartsWithAt(line, p, call)
            /\ \A h \in 1..(p - 1) : ~StartsWithAt(line, h, call)

\* a record comes before another in encounter order: on an earlier line, or
\* on the same line from an earlier pattern of the list, or from the same
\* pattern and written to the left
Before(a, b, lines) ==
    \/ a.line_number < b.line_number
    \/ /\ a.line_number = b.line_number
       /\ PatternIndex(a) < PatternIndex(b)
    \/ /\ a.line_number = b.line_number
       /\ PatternIndex(a) = PatternIndex(b)
       /\ CallPosition(a, lines) < CallPosition(b, lines)

\* the explain requests made so far, in order
ExplainRequests ==
    SelectSeq(db_calls, LAMBDA call : call.call \in {"find_explain", "aggregate_explain"})

\* the records the loop has gone through that had a collection
ResolvedSoFar ==
    SelectSeq(SubSeq(queries, 1, k - 1), LAMBDA query : query.collection # S_unknown)

\* where a record is first in the record list, past its end when it is not
\* in it
FirstIndex(query) ==
    IF \E n \in 1..Len(queries) : queries[n] = query
    THEN CHOOSE n \in 1..Len(queries) : queries[n] = query /\ \A h \in 1..(n - 1) : queries[h] # query
    ELSE Len(queries) + 1

\* the records were extracted in the step before
JustExtracted ==
    pc = "analyze" /\ k = 1

\* the state part of C24: the records, when extracted, are all the records
\* of the diff in encounter order; the explain requests made so far are in
\* the order of the records, one for a record at most; the analyses and the
\* issues are listed in the order of the records
C24_Order ==
    /\ pc = "lint" \/ JustExtracted => ExplainRequests = <<>>
    /\ JustExtracted =>
        LET lines == DiffLines
        IN  /\ queries = RecordsFrom(0, lines)
            /\ \A n \in 1..(Len(queries) - 1) :
                   Before(queries[n], queries[n + 1], lines)
    /\ pc # "lint" =>
        LET requests == ExplainRequests
            resolved == ResolvedSoFar
            first == [n \in 1..Len(issues) |-> FirstIndex(issues[n].query)]
        IN  /\ \A n \in 1..Len(requests) :
                   /\ requests[n].record \in 1..(k - 1)
                   /\ requests[n].collection = queries[requests[n].record].collection
                   /\ n > 1 => requests[n - 1].record < requests[n].record
            /\ Len(analyses) = Len(resolved)
            /\ \A n \in 1..Len(analyses) :
                   /\ analyses[n].collection = resolved[n].collection
                   /\ analyses[n].query = resolved[n].query
                   /\ analyses[n].operation = resolved[n].operation
            /\ \A n \in 1..Len(issues) :
                   /\ first[n] < k
                   /\ n > 1 => first[n - 1] <= first[n]
    /\ pc = "display" /\ Generated(report) =>
        /\ report.queries = queries
        /\ report.analyses = analyses
        /\ report.issues = issues

\* the step part of C24: the record list changes in the extraction only,
\* and a step makes one explain request at most
C24_Step ==
    /\ queries' # queries => pc = "lint"
    /\ Len(SelectSeq(db_calls', LAMBDA call : call.call \in {"find_explain", "aggregate_explain"}))
           <= Len(ExplainRequests) + 1

\* C24: within one call of lint_pr all records are extracted before the
\* first explain request; the records are in encounter order (line, then
\* pattern of the list, then position in the line); the explain requests
\* are made one at a time in the order of the records, and the analyses and
\* the issues are listed in that order
C24_EncounterOrder ==
    []C24_Order /\ [][C24_Step]_vars

\* a report of a diff of two lines: on the second, a call of the first
\* pattern written to the right of a call of the last pattern; explain
\* requests were made for records of both lines and issues found for both
C24_Witness ==
    /\ pc = "display"
    /\ Len(queries) = 4
    /\ PatternIndex(queries[3]) = 1
    /\ PatternIndex(queries[4]) = 7
    /\ CallPosition(queries[4], DiffLines) < CallPosition(queries[3], DiffLines)
    /\ PatternIndex(queries[1]) = PatternIndex(queries[2])
    /\ Len(ExplainRequests) = 4
    /\ \E n \in 1..Len(issues) : issues[n].query = queries[1]
    /\ \E n \in 1..Len(issues) : issues[n].query = queries[4]

(***************************************************************************)
(* Properties of the look-back of _extract_collection_name.                *)
(***************************************************************************)

\* the <name> of the first <var> = db.<name> binding of a line that holds one
BoundName(line) ==
    LET binds == {q \in 1..Len(line) :
                      /\ line[q] = "="
                      /\ \E p \in 1..(q - 1) :
                             /\ line[p] \in WordChars
                             /\ \A h \in (p + 1)..(q - 1) : line[h] \in SpaceChars
                      /\ \E d \in (q + 1)..Len(line) :
                             /\ \A h \in (q + 1)..(d - 1) : line[h] \in SpaceChars
                             /\ StartsWithAt(line, d, S_dbdot)
                             /\ d + Len(S_dbdot) <= Len(line)
                             /\ line[d + Len(S_dbdot)] \in WordChars}
        q == CHOOSE b \in binds : \A c \in binds : b <= c
        d == CHOOSE c \in (q + 1)..Len(line) :
                 line[c] \notin SpaceChars /\ \A h \in (q + 1)..(c - 1) : line[h] \in SpaceChars
        from == d + Len(S_dbdot)
        to == CHOOSE e \in from..Len(line) :
                  /\ \A h \in from..e : line[h] \in WordChars
                  /\ e = Len(line) \/ line[e + 1] \notin WordChars
    IN  SubSeq(line, from, to)

\* the lines (1-based) among the 3 before line number that hold a binding
BindingsInReach(lines, number) ==
    {h \in Max(1, number - 3)..(number - 1) : HoldsBinding(lines[h])}

\* C26: a record whose call line has no inline collection token gets the
\* name bound on the first of the (at most) 3 lines before it that hold a
\* <var> = db.<name> binding, whatever the receiver of the call; when none
\* of them holds one the collection is unknown, also when a line 4 or more
\* lines before the call holds a binding
C26_LookBackWindow ==
    pc = "extracted" =>
        LET lines == DiffLines
        IN  \A j \in 1..Len(queries) :
                LET number == queries[j].line_number
                    reach == BindingsInReach(lines, number)
                IN  ~HasInlineToken(lines[number]) =>
                        IF reach = {}
                        THEN queries[j].collection = S_unknown
                        ELSE queries[j].collection =
                                 BoundName(lines[CHOOSE h \in reach : \A g \in reach : h <= g])

\* a call on line 5 after bindings on lines 1, 3 and 4: the binding of line 3
\* is taken, not the nearer one of line 4, not the one of line 1, and not
\* the one of the call's receiver alone
C26_Witness ==
    /\ pc = "extracted"
    /\ DiffLines = <<L_binding, L_blank, L_binding_users, L_binding, L_indexed_call>>
    /\ Len(queries) = 1
    /\ queries[1].line_number = 5
    /\ queries[1].collection = S_users

====
